---- MODULE Spec2Model ----
(***************************************************************************)
(* State-machine model of the well-tempered-ear playback core:             *)
(*   - midi::Player          (src/unnamed/part_001, src/src/midi.h)        *)
(*   - Audio_FileCallback / Audio_LiveCallback   (src/src/sound.cc)        *)
(*   - AppContext::PlayLiveMIDIEvent, ReadUSBPacket (src/src/app.cc,       *)
(*     src/src/main.cc)                                                    *)
(* Floating point values (delta_per_second_, samples_per_tick) are modelled*)
(* as exact rationals [num, den].                                          *)
(***************************************************************************)
EXTENDS Integers, Sequences, FiniteSets, TLC

VARIABLES
    \* ---- file player: midi::Player (FILE_PLAYBACK) ----
    midi_ptr_,          \* attached Document, or NullPtr
    tracks_,            \* sequence of [track, info] (pair<const Track*, PlaybackInfo>)
    notes_,             \* NoteMap: function from the sounding notes to NoteInfo
    ticks_elapsed_,     \* Ticks
    delta_per_second_,  \* float, as a rational [num, den]
    \* ---- observation of the last Player call (history) ----
    last_op,            \* name of the last operation
    last_ret,           \* what it returned
    before,             \* the player's fields right before the last operation
    applied,            \* events applied since the last SetMIDI: <<[track, index, at]>>
    consumed,           \* sum of the ticks consumed by successful Advance calls since SetMIDI
    attaches,           \* number of SetMIDI calls so far
    fresh,              \* whether the note table was empty at the last SetMIDI
    loaded,             \* total size of the Documents attached so far
    \* ---- file playback unit (PlaybackUnit file_playback) and the SDL event queue ----
    samples_since_last_event,   \* unsigned
    file_sample_point_,         \* file_playback.generator.sample_point_
    sdl_events,                 \* events pushed with SDL_PushEvent, oldest first
    \* ---- observation of the file pulls (history) ----
    intervals,          \* one entry per Advance made by Audio_FileCallback
    since_advance,      \* what was synthesized since the last such Advance
    exhausted,          \* a pull found every track of the attached Document done
    \* ---- live playback unit (PlaybackUnit live_playback) and its two threads ----
    live_notes_,        \* live_playback.player.notes_
    live_ticks_elapsed_,\* live_playback.player.ticks_elapsed_
    live_sample_point_, \* live_playback.generator.sample_point_
    live_queued,        \* samples queued in live_playback.stream
    lock,               \* SoundContext::lock: the thread that holds it, or "none"
    clock,              \* Clock::now() - start_time_, in milliseconds
    audio,              \* Audio_LiveCallback on the audio thread: [pc, count, i]
    main,               \* the main thread in SDL_AppEvent: [pc, event, samples_queued]
    live_ops,           \* number of USB packets, pulls and exercises begun so far
    \* ---- Audio_FileCallback on the audio thread, statement by statement ----
    file_audio,         \* [pc, additional_amount, samples]
    \* ---- decoding a Standard MIDI File (MIDI::FromStream) ----
    file,               \* the bytes of the opened file
    source,             \* how the file was written: [tracks, division, chunks, items,
                        \* terminated, cut, ignored]
    decoded,            \* the tb::result of MIDI::FromStream, or NotDecoded
    \* ---- one call of Generator::GenerateSamples ----
    gen,                \* [pc, version, sample_point (before the call), status, call,
                        \* out, sample_point_ (after the call)]
    \* ---- the game (Game) and what AppContext::BeginExercise stores ----
    game,               \* [state_, note_input_buffer_, exercise_notes_, current_exercise_,
                        \* required_input_key_, octave_displacement_]
    transposition_offset_,  \* file_playback.player.transposition_offset_ (uint8_t)
    game_last           \* the last handler that ran (history): [op, note, exercises]

playerVars == <<midi_ptr_, tracks_, notes_, ticks_elapsed_, delta_per_second_>>
historyVars == <<last_op, last_ret, before, applied, consumed, attaches, fresh, loaded>>
bridgeVars == <<samples_since_last_event, file_sample_point_, sdl_events>>
bridgeHistoryVars == <<intervals, since_advance, exhausted>>
liveVars == <<live_notes_, live_ticks_elapsed_, live_sample_point_, live_queued, lock,
              clock, audio, main, live_ops>>
fileThreadVars == <<file_audio>>
decodeVars == <<file, source, decoded>>
generatorVars == <<gen>>
gameVars == <<game, transposition_offset_, game_last>>
vars == <<playerVars, historyVars, bridgeVars, bridgeHistoryVars, liveVars,
          fileThreadVars, decodeVars, generatorVars, gameVars>>

----------------------------------------------------------------------------
\* Bounds of the model

\* Total size of the Documents attached in one run; a Document counts for one plus
\* the number of its events (END_TRACK included).
MaxLoad == 5

\* Width of midi::Ticks in the model (uint64_t in the code; TLC integers are 32 bit).
TicksBits == 16

TicksMod == 2 ^ TicksBits

\* std::numeric_limits<Ticks>::max()
TICKS_MAX == TicksMod - 1

\* Width of `unsigned` in the model (32 bit in the code): the generator's phase
\* counter and samples_since_last_event.
UnsignedBits == 13

UnsignedMod == 2 ^ UnsignedBits

\* Width of size_t in the model (64 bit in the code).
SizeBits == 16

SIZE_MAX == 2 ^ SizeBits - 1

\* The pulls of one interval are counted up to MaxPulls.
MaxPulls == 3

\* int SAMPLE_RATE: the rate both generators are constructed with.
SAMPLE_RATE == 64000

\* size_t SAMPLE_BUFFER_SIZE: the length of PlaybackUnit::sample_buffer.
SAMPLE_BUFFER_SIZE == 4096

\* Bounds of the live unit: the events waiting in the SDL queue, the samples
\* waiting in the live stream when the backend asks for more, the USB packets and
\* live pulls of one run, the time the run lasts (milliseconds).
MaxQueue == 2

MaxQueued == 2

MaxLiveOps == 4
\* events of the largest Document of an exercise
MaxExercise == 2

MaxClock == 50

\* The clock is read at multiples of ClockStep milliseconds.
ClockSteps == {25}

\* The amounts the audio backend asks of the live unit.
LivePullSizes == {0, 1, 2}

\* The amounts the audio backend asks for (additional_amount).
PullSizes == {0, 1, 3000, 5000}

\* Delta times of the note events of the input Documents.
Deltas == {0, 40}

\* Delta times of their tempo events and of their END_TRACK events.
TempoDeltas == {0}

EndDeltas == {0, 80}

\* Note events of the input Documents: <<note, velocity>>.
NoteOns == {<<60, 100>>, <<60, 50>>}

NoteOffs == {60}

\* Tempo values (microseconds per quarter note) of the input Documents.
Tempos == {500000}

\* Header division values (ticks per quarter note) of the input Documents.
Divisions == {480}

----------------------------------------------------------------------------
\* Data model (src/src/midi.h)

\* const MIDI* midi_ptr_: the empty sequence is nullptr, <<doc>> points to doc.
NullPtr == <<>>

AddressOf(doc) == <<doc>>

Deref(ptr) == ptr[1]

\* std::nullopt of std::optional<Ticks>
NullOpt == -1

\* PlaybackInfo::current_event_index = -1 (SIZE_MAX): adding 1 gives index 0.
BEFORE_FIRST_EVENT == -1

NoteOnEvent(d, n, v) ==
    [delta_time |-> d, type |-> "NOTE_ON", meta_type |-> "NONE",
     note |-> n, velocity |-> v, usec_per_quarter_note |-> 0]

NoteOffEvent(d, n) ==
    [delta_time |-> d, type |-> "NOTE_OFF", meta_type |-> "NONE",
     note |-> n, velocity |-> 0, usec_per_quarter_note |-> 0]

TempoEvent(d, u) ==
    [delta_time |-> d, type |-> "META", meta_type |-> "TEMPO",
     note |-> 0, velocity |-> 0, usec_per_quarter_note |-> u]

EndTrackEvent(d) ==
    [delta_time |-> d, type |-> "META", meta_type |-> "END_TRACK",
     note |-> 0, velocity |-> 0, usec_per_quarter_note |-> 0]

\* The events Track::FromStream stores before the END_TRACK event.
BodyEvents ==
    {NoteOnEvent(d, nv[1], nv[2]) : d \in Deltas, nv \in NoteOns}
    \cup {NoteOffEvent(d, n) : d \in Deltas, n \in NoteOffs}
    \cup {TempoEvent(d, u) : d \in TempoDeltas, u \in Tempos}

EndEvents == {EndTrackEvent(d) : d \in EndDeltas}

\* Tracks as Track::FromStream builds them: n events, the last one END_TRACK.
RECURSIVE BodiesOfLen(_)
BodiesOfLen(n) ==
    IF n = 0 THEN {<<>>}
    ELSE {<<e>> \o b : e \in BodyEvents, b \in BodiesOfLen(n - 1)}

TracksOfLen(n) ==
    {[events |-> b \o <<e>>] : b \in BodiesOfLen(n - 1), e \in EndEvents}

\* Track lists with at most b events in total.
RECURSIVE TrackListsWithin(_)
TrackListsWithin(b) ==
    {<<>>} \cup
    UNION {{<<t>> \o rest : t \in TracksOfLen(n), rest \in TrackListsWithin(b - n)}
           : n \in 1..b}

\* Documents MIDI::FromStream can return, with at most b events in total.
DocsWithin(b) ==
    {[tracks_ |-> ts, tick_division_ |-> d] : ts \in TrackListsWithin(b), d \in Divisions}

RECURSIVE SumLen(_)
SumLen(ts) == IF ts = <<>> THEN 0 ELSE Len(Head(ts).events) + SumLen(Tail(ts))

DocEvents(doc) == SumLen(doc.tracks_)

\* MIDIInputEvent as ReadUSBPacket builds it (src/src/events.h).
MIDIInputEvent(t, n, v) ==
    [type |-> "MIDIInputEvent", event_type |-> t, note |-> n, velocity |-> v]

\* The events a USB packet of the controller can carry.
MIDIInputEvents ==
    {MIDIInputEvent("NOTE_ON", nv[1], nv[2]) : nv \in NoteOns}
    \cup {MIDIInputEvent("NOTE_OFF", n, 0) : n \in NoteOffs}

\* No event in hand.
NoEvent == [type |-> "none"]

\* Mutant of NewPlaybackInfo: playback_ticks has no initializer and holds what the
\* memory held.
PlaybackInfoWithoutInitializer ==
    [current_event_index |-> BEFORE_FIRST_EVENT, playback_ticks |-> TICKS_MAX, done |-> FALSE]

\* PlaybackInfo {}
NewPlaybackInfo ==
    [current_event_index |-> BEFORE_FIRST_EVENT, playback_ticks |-> 0, done |-> FALSE]

\* float delta_per_second_ = 960.f (ticks_per_second_ in midi.h)
DefaultDeltaPerSecond == [num |-> 960, den |-> 1]

\* track->events[i], i counted from 0
EventAt(midi, tr, i) == midi.tracks_[tr].events[i + 1]

\* Unsigned arithmetic on Ticks
AddTicks(a, b) == (a + b) % TicksMod

SubTicks(a, b) == (a - b + TicksMod) % TicksMod

----------------------------------------------------------------------------
\* midi::Player (src/unnamed/part_001)

\* Mutant of ShortestFrom: the ticks already consumed on the track are not subtracted.
RECURSIVE ShortestFromIgnoringPlayback(_, _, _, _)
ShortestFromIgnoringPlayback(midi, tracks, i, shortest) ==
    IF i > Len(tracks) THEN shortest
    ELSE LET info == tracks[i].info IN
         IF info.done THEN ShortestFromIgnoringPlayback(midi, tracks, i + 1, shortest)
         ELSE LET next_ev == EventAt(midi, tracks[i].track, info.current_event_index + 1)
                  remaining == next_ev.delta_time
              IN  ShortestFromIgnoringPlayback(midi, tracks, i + 1,
                               IF remaining < shortest THEN remaining ELSE shortest)

\* The loop of Player::TicksUntilNextEvent over tracks_[i..], from `shortest`.
RECURSIVE ShortestFrom(_, _, _, _)
ShortestFrom(midi, tracks, i, shortest) ==
    IF i > Len(tracks) THEN shortest
    ELSE LET info == tracks[i].info IN
         IF info.done THEN ShortestFrom(midi, tracks, i + 1, shortest)
         ELSE LET next_ev == EventAt(midi, tracks[i].track, info.current_event_index + 1)
                  remaining == SubTicks(next_ev.delta_time, info.playback_ticks)
              IN  ShortestFrom(midi, tracks, i + 1,
                               IF remaining < shortest THEN remaining ELSE shortest)

\* Player::TicksUntilNextEvent
TicksUntilNextEvent(ptr, tracks) ==
    IF ptr = NullPtr THEN NullOpt
    ELSE LET shortest == ShortestFrom(Deref(ptr), tracks, 1, TICKS_MAX) IN
         IF shortest = TICKS_MAX THEN NullOpt ELSE shortest

\* NoteMap::emplace(note, NoteInfo {time, velocity}): inserts only if the key is absent.
Emplace(notes, note, info) ==
    IF note \in DOMAIN notes THEN notes
    ELSE [n \in DOMAIN notes \cup {note} |-> IF n = note THEN info ELSE notes[n]]

\* NoteMap::erase(note)
Erase(notes, note) == [n \in DOMAIN notes \ {note} |-> notes[n]]

\* 1.f / (usec_per_quarter_note / tick_division_ / 1000000.f): the first division is
\* an integer division, the others are float divisions.
\* With tick_division 0 the integer division is undefined: the call traps and the
\* player is left as it was, or it goes on with a quotient, taken as 0 here.
TempoDeltaPerSecond(usec_per_quarter_note, tick_division) ==
    [num |-> 1000000,
     den |-> IF tick_division = 0 THEN 0 ELSE usec_per_quarter_note \div tick_division]

\* Mutant of EventNotes: the NOTE_OFF case is missing from the switch.
EventNotesIgnoringNoteOff(notes, next_ev, elapsed) ==
    IF next_ev.type = "NOTE_ON"
    THEN Emplace(notes, next_ev.note, [time |-> elapsed, velocity |-> next_ev.velocity])
    ELSE notes

\* The NOTE_ON and NOTE_OFF cases of the switch of Player::Advance on next_ev.type;
\* elapsed is ticks_elapsed_ after the addition.
EventNotes(notes, next_ev, elapsed) ==
    CASE next_ev.type = "NOTE_ON" ->
            Emplace(notes, next_ev.note, [time |-> elapsed, velocity |-> next_ev.velocity])
      [] next_ev.type = "NOTE_OFF" -> Erase(notes, next_ev.note)
      [] OTHER -> notes

\* Mutant of EventDone: every META event ends the track.
EventDoneOnAnyMeta(done, next_ev) ==
    IF next_ev.type = "META" THEN TRUE ELSE done

\* case MetaType::END_TRACK: info.done = true
EventDone(done, next_ev) ==
    IF next_ev.type = "META" /\ next_ev.meta_type = "END_TRACK" THEN TRUE ELSE done

\* case MetaType::TEMPO: delta_per_second_ = ...
EventDeltaPerSecond(delta_per_second, next_ev, midi) ==
    IF next_ev.type = "META" /\ next_ev.meta_type = "TEMPO"
    THEN TempoDeltaPerSecond(next_ev.usec_per_quarter_note, midi.tick_division_)
    ELSE delta_per_second

\* The cursor of a track whose next event is applied: info.playback_ticks = 0,
\* info.done as the switch leaves it, ++info.current_event_index.
FiredInfo(info, next_ev) ==
    [current_event_index |-> info.current_event_index + 1,
     playback_ticks |-> 0,
     done |-> EventDone(info.done, next_ev)]

\* The else branch of the loop body of Player::Advance: tracks_[i] applies next_ev.
\* st = [tracks, notes, delta_per_second].
ApplyEvent(st, i, next_ev, elapsed, midi) ==
    [tracks |-> [st.tracks EXCEPT ![i].info = FiredInfo(st.tracks[i].info, next_ev)],
     notes |-> EventNotes(st.notes, next_ev, elapsed),
     delta_per_second |-> EventDeltaPerSecond(st.delta_per_second, next_ev, midi)]

\* Mutant of AdvanceTrack: a track that waits does not accumulate the ticks.
AdvanceTrackForgettingWait(st, i, ticks, elapsed, midi) ==
    LET info == st.tracks[i].info IN
    IF info.done THEN st
    ELSE LET next_ev == EventAt(midi, st.tracks[i].track, info.current_event_index + 1) IN
         IF next_ev.delta_time > AddTicks(ticks, info.playback_ticks)
         THEN st
         ELSE ApplyEvent(st, i, next_ev, elapsed, midi)

\* Mutant of AdvanceTrack: a track whose event is due exactly now waits as well.
AdvanceTrackWaitingWhenDue(st, i, ticks, elapsed, midi) ==
    LET info == st.tracks[i].info IN
    IF info.done THEN st
    ELSE LET next_ev == EventAt(midi, st.tracks[i].track, info.current_event_index + 1) IN
         IF next_ev.delta_time >= AddTicks(ticks, info.playback_ticks)
         THEN [st EXCEPT !.tracks[i].info.playback_ticks = AddTicks(info.playback_ticks, ticks)]
         ELSE ApplyEvent(st, i, next_ev, elapsed, midi)

\* One iteration of the for loop of Player::Advance, on tracks_[i].
AdvanceTrack(st, i, ticks, elapsed, midi) ==
    LET info == st.tracks[i].info IN
    IF info.done THEN st
    ELSE LET next_ev == EventAt(midi, st.tracks[i].track, info.current_event_index + 1) IN
         IF next_ev.delta_time > AddTicks(ticks, info.playback_ticks)
         THEN [st EXCEPT !.tracks[i].info.playback_ticks = AddTicks(info.playback_ticks, ticks)]
         ELSE ApplyEvent(st, i, next_ev, elapsed, midi)

\* The for loop of Player::Advance over tracks_[i..]. (The singleton set makes TLC
\* compute the state after one iteration once, not once per use.)
RECURSIVE AdvanceLoop(_, _, _, _, _)
AdvanceLoop(st, i, ticks, elapsed, midi) ==
    IF i > Len(st.tracks) THEN st
    ELSE CHOOSE after \in {AdvanceLoop(next, i + 1, ticks, elapsed, midi) :
                            next \in {AdvanceTrack(st, i, ticks, elapsed, midi)}} : TRUE

\* Mutant of PlayerAdvance: the note table is cleared when the sequence has ended.
PlayerAdvanceSilencingAtEnd(p) ==
    LET ticks == TicksUntilNextEvent(p.midi_ptr, p.tracks) IN
    IF ticks = NullOpt THEN [player |-> [p EXCEPT !.notes = <<>>], ret |-> "EndOfMIDIError"]
    ELSE LET elapsed == AddTicks(p.ticks_elapsed, ticks)
             st == AdvanceLoop([tracks |-> p.tracks, notes |-> p.notes,
                                delta_per_second |-> p.delta_per_second],
                               1, ticks, elapsed, Deref(p.midi_ptr))
         IN  [player |-> [midi_ptr |-> p.midi_ptr,
                          tracks |-> st.tracks,
                          notes |-> st.notes,
                          ticks_elapsed |-> elapsed,
                          delta_per_second |-> st.delta_per_second],
              ret |-> "ok"]

\* Player::Advance on a player p = [midi_ptr, tracks, notes, ticks_elapsed, delta_per_second]:
\* the player after the call, and what the call returns.
PlayerAdvance(p) ==
    LET ticks == TicksUntilNextEvent(p.midi_ptr, p.tracks) IN
    IF ticks = NullOpt THEN [player |-> p, ret |-> "EndOfMIDIError"]
    ELSE LET elapsed == AddTicks(p.ticks_elapsed, ticks)
             st == AdvanceLoop([tracks |-> p.tracks, notes |-> p.notes,
                                delta_per_second |-> p.delta_per_second],
                               1, ticks, elapsed, Deref(p.midi_ptr))
         IN  [player |-> [midi_ptr |-> p.midi_ptr,
                          tracks |-> st.tracks,
                          notes |-> st.notes,
                          ticks_elapsed |-> elapsed,
                          delta_per_second |-> st.delta_per_second],
              ret |-> "ok"]

\* The loop of Player::SetMIDI: tracks_.emplace_back(&track, PlaybackInfo {}) per track.
RECURSIVE EmplaceTracks(_, _, _)
EmplaceTracks(tracks, doc, i) ==
    IF i > Len(doc.tracks_) THEN tracks
    ELSE EmplaceTracks(Append(tracks, [track |-> i, info |-> NewPlaybackInfo]), doc, i + 1)

\* Mutant of PlayerSetMIDI: tracks_.clear() is missing.
PlayerSetMIDIWithoutClear(p, doc) ==
    [p EXCEPT !.midi_ptr = AddressOf(doc),
              !.tracks = EmplaceTracks(p.tracks, doc, 1)]

\* Mutant of PlayerSetMIDI: the call starts the playback over, as the constructor
\* leaves it.
PlayerSetMIDIStartingOver(p, doc) ==
    [p EXCEPT !.midi_ptr = AddressOf(doc),
              !.tracks = EmplaceTracks(<<>>, doc, 1),
              !.notes = <<>>,
              !.ticks_elapsed = 0]

\* Player::SetMIDI: midi_ptr_ = &midi; tracks_.clear(); then the loop.
PlayerSetMIDI(p, doc) ==
    [p EXCEPT !.midi_ptr = AddressOf(doc),
              !.tracks = EmplaceTracks(<<>>, doc, 1)]

\* The file player as one value.
FilePlayer ==
    [midi_ptr |-> midi_ptr_, tracks |-> tracks_, notes |-> notes_,
     ticks_elapsed |-> ticks_elapsed_, delta_per_second |-> delta_per_second_]

SetFilePlayer(p) ==
    /\ midi_ptr_' = p.midi_ptr
    /\ tracks_' = p.tracks
    /\ notes_' = p.notes
    /\ ticks_elapsed_' = p.ticks_elapsed
    /\ delta_per_second_' = p.delta_per_second

\* The events an Advance call applied, in the order it applied them (track order).
RECURSIVE AppliedBy(_, _, _, _)
AppliedBy(old, new, i, at) ==
    IF i > Len(old) THEN <<>>
    ELSE (IF new[i].info.current_event_index # old[i].info.current_event_index
          THEN <<[track |-> old[i].track, index |-> new[i].info.current_event_index, at |-> at]>>
          ELSE <<>>)
         \o AppliedBy(old, new, i + 1, at)

----------------------------------------------------------------------------
\* The Player driven through its public interface.

\* Player::Player(PlayerMode::FILE_PLAYBACK)
PlayerInit ==
    /\ midi_ptr_ = NullPtr
    /\ tracks_ = <<>>
    /\ notes_ = <<>>
    /\ ticks_elapsed_ = 0
    /\ delta_per_second_ = DefaultDeltaPerSecond
    /\ last_op = "Player"
    /\ last_ret = "ok"
    /\ before = FilePlayer
    /\ applied = <<>>
    /\ consumed = 0
    /\ attaches = 0
    /\ fresh = TRUE
    /\ loaded = 0

\* The observation counts up to a ceiling.
Saturated(n, ceiling) == IF n > ceiling THEN ceiling ELSE n

\* Nothing synthesized yet since the last Advance.
NoSamples == [samples |-> 0, pulls |-> 0, interrupted |-> FALSE]

\* PlaybackUnit file_playback as AppContext is constructed; no event pushed yet.
BridgeInit ==
    /\ samples_since_last_event = 0
    /\ file_sample_point_ = 0
    /\ sdl_events = <<>>
    /\ intervals = <<>>
    /\ since_advance = NoSamples
    /\ exhausted = FALSE

\* PlaybackUnit live_playback as AppContext is constructed, both threads idle.
LiveInit ==
    /\ live_notes_ = <<>>
    /\ live_ticks_elapsed_ = 0
    /\ live_sample_point_ = 0
    /\ live_queued = 0
    /\ lock = "none"
    /\ clock = 0
    /\ audio = [pc |-> "idle", count |-> 0, i |-> 0]
    /\ main = [pc |-> "idle", event |-> NoEvent, samples_queued |-> 0]
    /\ live_ops = 0

\* Audio_FileCallback is not running.
FileThreadInit == file_audio = [pc |-> "idle", additional_amount |-> 0, samples |-> 0]

\* No file opened yet.
NotDecoded == [is_error |-> FALSE, opened |-> FALSE]

DecodeInit ==
    /\ file = <<>>
    /\ source = [tracks |-> 0, division |-> <<0, 0>>, chunks |-> 0, items |-> <<>>,
                 terminated |-> FALSE, cut |-> 0,
                 ignored |-> [two |-> 0, one |-> 0]]
    /\ decoded = NotDecoded

\* No call of GenerateSamples looked at yet.
NoStatus == [notes |-> <<>>, ticks_elapsed |-> 0,
             delta_per_second |-> [num |-> 960, den |-> 1], transposition_offset_ |-> 0]
NoCall == [count |-> 0, size |-> 0, sample_offset |-> 0]
NoOutput == [returned |-> 0, diffs |-> <<>>, voices |-> <<>>]

GeneratorInit ==
    gen = [pc |-> "none", version |-> "none", sample_point |-> 0, status |-> NoStatus,
           call |-> NoCall, out |-> NoOutput, sample_point_ |-> 0]

\* INVALID_RESOURCE = std::numeric_limits<ResourceIndex>::max(): the index of no
\* resource.
INVALID_RESOURCE == -1

\* Game as constructed (src/src/game.h), the transposition of the file player as
\* constructed (midi.h), no handler run yet.
GameInit ==
    /\ game = [state_ |-> "WAIT_FOR_READY", note_input_buffer_ |-> <<>>,
               exercise_notes_ |-> <<>>, current_exercise_ |-> INVALID_RESOURCE,
               required_input_key_ |-> 0, octave_displacement_ |-> 0]
    /\ transposition_offset_ = 0
    /\ game_last = [op |-> "none", note |-> 0, exercises |-> 0]

Init ==
    /\ PlayerInit /\ BridgeInit /\ LiveInit /\ FileThreadInit /\ DecodeInit /\ GeneratorInit
    /\ GameInit

\* file_playback.player.SetMIDI(doc) and what it leaves to observe.
AttachDocument(docs) ==
    /\ loaded < MaxLoad
    /\ \E doc \in docs :
          /\ SetFilePlayer(PlayerSetMIDI(FilePlayer, doc))
          /\ loaded' = loaded + 1 + DocEvents(doc)
    /\ last_op' = "SetMIDI"
    /\ last_ret' = "ok"
    /\ before' = FilePlayer
    /\ applied' = <<>>
    /\ consumed' = 0
    /\ attaches' = attaches + 1
    /\ fresh' = (notes_ = <<>>)
    /\ since_advance' = [since_advance EXCEPT !.interrupted = @ \/ since_advance.samples > 0]
    /\ exhausted' = FALSE
    /\ UNCHANGED <<bridgeVars, intervals>>

SetMIDI ==
    /\ AttachDocument(DocsWithin(MaxLoad - loaded - 1))
    /\ UNCHANGED <<liveVars, fileThreadVars, decodeVars, generatorVars, gameVars>>

Advance ==
    LET r == PlayerAdvance(FilePlayer) IN
    /\ SetFilePlayer(r.player)
    /\ last_op' = "Advance"
    /\ last_ret' = r.ret
    /\ before' = FilePlayer
    /\ applied' = IF r.ret = "ok"
                  THEN applied \o AppliedBy(tracks_, r.player.tracks, 1, r.player.ticks_elapsed)
                  ELSE applied
    /\ consumed' = IF r.ret = "ok"
                   THEN consumed + TicksUntilNextEvent(midi_ptr_, tracks_)
                   ELSE consumed
    /\ UNCHANGED <<attaches, fresh, loaded>>
    /\ UNCHANGED <<bridgeVars, bridgeHistoryVars, liveVars, fileThreadVars, decodeVars,
                   generatorVars, gameVars>>

Next == SetMIDI \/ Advance

Spec == Init /\ [][Next]_vars

----------------------------------------------------------------------------
\* The real-time bridge in file mode (src/src/sound.cc)

RECURSIVE GCD(_, _)
GCD(a, b) == IF b = 0 THEN a ELSE GCD(b, a % b)

\* float samples_per_tick = generator.sample_rate_ / file_player.GetDeltaPerSecond(),
\* as a rational in lowest terms.
SamplesPerTick(sample_rate, delta_per_second) ==
    LET n == sample_rate * delta_per_second.den
        d == delta_per_second.num
        g == GCD(n, d)
    IN  [num |-> n \div g, den |-> d \div g]

\* Mutant of RequestedSamples: the samples already synthesized for the interval are
\* not subtracted.
RequestedSamplesIgnoringShortfall(ticks, samples_per_tick, since_last_event, ub) ==
    (ticks * samples_per_tick.num) \div samples_per_tick.den

\* size_t requested_samples = ticks.value() * samples_per_tick - samples_since_last_event:
\* a float converted to size_t, which truncates; converting a negative float is
\* undefined, and ub is what the conversion then yields.
RequestedSamples(ticks, samples_per_tick, since_last_event, ub) ==
    LET product == (ticks * samples_per_tick.num) \div samples_per_tick.den IN
    IF product - since_last_event < 0 THEN ub ELSE product - since_last_event

\* What converting a negative float to size_t can yield: 0 where the conversion
\* saturates, a value near SIZE_MAX where it wraps.
UndefinedConversions == {0, SIZE_MAX}

\* Mutant of GenerateCount: the count is not limited to the span.
GenerateCountUnclamped(span_size, count) == count

\* The number of samples Generator::GenerateSamples writes and returns for a span of
\* span_size samples: if (count > samples.size()) count = samples.size().
GenerateCount(span_size, count) == IF count > span_size THEN span_size ELSE count

\* One iteration of the while loop of Audio_FileCallback, from the state s of the
\* call: s.samples is the local `samples`, the other fields are the playback unit's.
\* again: whether the iteration ends without a break.
FileCallbackIteration(s, ub) ==
    LET ticks == TicksUntilNextEvent(s.player.midi_ptr, s.player.tracks) IN
    IF ticks = NullOpt
    THEN [state |-> [s EXCEPT !.exhausted = (s.player.midi_ptr # NullPtr)],
          again |-> FALSE]
    ELSE
    LET samples_per_tick == SamplesPerTick(SAMPLE_RATE, s.player.delta_per_second)
        requested_samples ==
            RequestedSamples(ticks, samples_per_tick, s.samples_since_last_event, ub)
        samples_generated == GenerateCount(SAMPLE_BUFFER_SIZE - s.samples, requested_samples)
        generated == [s EXCEPT
            !.samples = @ + samples_generated,
            !.sample_point = (@ + samples_generated) % UnsignedMod,
            !.since_advance.samples = Saturated(@ + samples_generated, SIZE_MAX),
            !.since_advance.pulls = Saturated(@ + 1, MaxPulls)]
    IN
    IF samples_generated < requested_samples
    THEN [state |-> [generated EXCEPT
                        !.samples_since_last_event = (@ + samples_generated) % UnsignedMod],
          again |-> FALSE]
    ELSE
    LET r == PlayerAdvance(s.player)
        advanced == [generated EXCEPT
            !.samples_since_last_event = 0,
            !.player = r.player,
            !.intervals = Append(@, [ticks |-> ticks,
                                     samples_per_tick |-> samples_per_tick,
                                     samples |-> generated.since_advance.samples,
                                     pulls |-> generated.since_advance.pulls,
                                     interrupted |-> generated.since_advance.interrupted]),
            !.since_advance = NoSamples,
            !.applied = @ \o AppliedBy(s.player.tracks, r.player.tracks, 1,
                                       r.player.ticks_elapsed),
            !.consumed = @ + ticks]
    IN  [state |-> advanced, again |-> r.ret = "ok"]

\* The while loop of Audio_FileCallback.
\* (The singleton set makes TLC compute the state after one iteration once.)
RECURSIVE FileCallbackLoop(_, _, _)
FileCallbackLoop(s, additional_amount, ub) ==
    IF ~(s.samples < additional_amount) THEN s
    ELSE CHOOSE after \in {IF it.again
                            THEN FileCallbackLoop(it.state, additional_amount, ub)
                            ELSE it.state : it \in {FileCallbackIteration(s, ub)}} : TRUE

\* Whether the first requested_samples of a call converts a negative float (the later
\* ones of the call are computed with samples_since_last_event = 0).
NegativeRequest ==
    LET ticks == TicksUntilNextEvent(midi_ptr_, tracks_)
        samples_per_tick == SamplesPerTick(SAMPLE_RATE, delta_per_second_)
    IN  /\ ticks # NullOpt
        /\ (ticks * samples_per_tick.num) \div samples_per_tick.den
              < samples_since_last_event

\* Audio_FileCallback(ctx, stream, additional_amount, total_amount), run by the audio
\* thread; the lock is held from before the loop to the return.
Audio_FileCallback ==
    \E additional_amount \in PullSizes,
       ub \in (IF NegativeRequest THEN UndefinedConversions ELSE {0}) :
        IF additional_amount < 1 THEN UNCHANGED vars
        ELSE
        \E s \in {FileCallbackLoop(
                    [samples |-> 0,
                     player |-> FilePlayer,
                     samples_since_last_event |-> samples_since_last_event,
                     sample_point |-> file_sample_point_,
                     intervals |-> intervals,
                     since_advance |-> since_advance,
                     exhausted |-> exhausted,
                     applied |-> applied,
                     consumed |-> consumed],
                    additional_amount, ub)} :
            /\ SetFilePlayer(s.player)
            /\ samples_since_last_event' = s.samples_since_last_event
            /\ file_sample_point_' = s.sample_point
            /\ intervals' = s.intervals
            /\ since_advance' = s.since_advance
            /\ exhausted' = s.exhausted
            /\ applied' = s.applied
            /\ consumed' = s.consumed
            /\ last_op' = "Audio_FileCallback"
            /\ last_ret' = s.samples
            /\ before' = FilePlayer
            /\ UNCHANGED <<sdl_events, attaches, fresh, loaded, liveVars, fileThreadVars,
                           decodeVars, generatorVars, gameVars>>

\* The file playback unit: the application attaches Documents, the audio backend pulls.
BridgeNext == SetMIDI \/ Audio_FileCallback

BridgeSpec == Init /\ [][BridgeNext]_vars

\* The audio backend keeps pulling while the stream is resumed.
FairBridgeSpec == Init /\ [][BridgeNext]_vars /\ WF_vars(Audio_FileCallback)

----------------------------------------------------------------------------
\* The live playback unit: the USB thread pushes the controller's events, the main
\* thread injects them (src/src/app.cc), the audio thread pulls (src/src/sound.cc).

otherVars == <<playerVars, historyVars, samples_since_last_event, file_sample_point_,
               bridgeHistoryVars, fileThreadVars, decodeVars, generatorVars, gameVars>>

\* Player::GetTicksElapsed in LIVE_PLAYBACK mode, and the first line of PlayEvent:
\* delta_per_second_ * time_diff.count(), converted to Ticks.
LiveTicks(delta_per_second, ms) ==
    (delta_per_second.num * ms) \div (delta_per_second.den * 1000)

\* The switch of Player::PlayEvent on event.type.
PlayEventNotes(notes, event, elapsed) ==
    CASE event.event_type = "NOTE_ON" ->
            Emplace(notes, event.note, [time |-> elapsed, velocity |-> event.velocity])
      [] event.event_type = "NOTE_OFF" -> Erase(notes, event.note)
      [] OTHER -> notes

\* Time passes.
Tick ==
    /\ \E step \in ClockSteps :
          /\ clock + step <= MaxClock
          /\ clock' = clock + step
    /\ UNCHANGED <<otherVars, sdl_events, live_notes_, live_ticks_elapsed_,
                   live_sample_point_, live_queued, lock, audio, main, live_ops>>

\* The audio device plays a queued sample of the live stream.
DevicePlays ==
    /\ live_queued > 0
    /\ live_queued' = live_queued - 1
    /\ UNCHANGED <<otherVars, sdl_events, live_notes_, live_ticks_elapsed_,
                   live_sample_point_, lock, clock, audio, main, live_ops>>

\* ReadUSBPacket (USB thread): a packet with one note message is pushed as a
\* MIDIInputEvent.
ReadUSBPacket ==
    /\ live_ops < MaxLiveOps
    /\ Len(sdl_events) < MaxQueue
    /\ \E ev \in MIDIInputEvents : sdl_events' = Append(sdl_events, ev)
    /\ live_ops' = live_ops + 1
    /\ UNCHANGED <<otherVars, live_notes_, live_ticks_elapsed_, live_sample_point_,
                   live_queued, lock, clock, audio, main>>

\* SDL_AppEvent (main thread) takes the next event; a MIDIInputEvent is handed to
\* PlayLiveMIDIEvent.
SDL_AppEvent ==
    /\ main.pc = "idle"
    /\ sdl_events # <<>>
    /\ sdl_events' = Tail(sdl_events)
    /\ main' = IF Head(sdl_events).type = "MIDIInputEvent"
               THEN [pc |-> "GetQueued", event |-> Head(sdl_events), samples_queued |-> 0]
               ELSE main
    /\ UNCHANGED <<otherVars, live_notes_, live_ticks_elapsed_, live_sample_point_,
                   live_queued, lock, clock, audio, live_ops>>

\* PlayLiveMIDIEvent: bytes_queued = SDL_GetAudioStreamQueued(stream); on -1 the call
\* returns, else samples_queued = bytes_queued / sizeof(Sample).
PlayLive_GetQueued ==
    /\ main.pc = "GetQueued"
    /\ \E failed \in BOOLEAN :
          main' = IF failed
                  THEN [pc |-> "idle", event |-> NoEvent, samples_queued |-> 0]
                  ELSE [main EXCEPT !.pc = "Clear", !.samples_queued = live_queued]
    /\ UNCHANGED <<otherVars, sdl_events, live_notes_, live_ticks_elapsed_,
                   live_sample_point_, live_queued, lock, clock, audio, live_ops>>

\* PlayLiveMIDIEvent: SDL_ClearAudioStream(stream)
PlayLive_Clear ==
    /\ main.pc = "Clear"
    /\ live_queued' = 0
    /\ main' = [main EXCEPT !.pc = "Lock"]
    /\ UNCHANGED <<otherVars, sdl_events, live_notes_, live_ticks_elapsed_,
                   live_sample_point_, lock, clock, audio, live_ops>>

\* Mutant of PlayLive_Lock: PlayLiveMIDIEvent goes on without the lock_guard.
PlayLive_WithoutLock ==
    /\ main.pc = "Lock"
    /\ main' = [main EXCEPT !.pc = "PlayEvent"]
    /\ UNCHANGED <<otherVars, sdl_events, live_notes_, live_ticks_elapsed_,
                   live_sample_point_, live_queued, lock, clock, audio, live_ops>>

\* PlayLiveMIDIEvent: std::lock_guard<std::mutex> guard(sound_ctx.lock)
PlayLive_Lock ==
    /\ main.pc = "Lock"
    /\ lock = "none"
    /\ lock' = "main"
    /\ main' = [main EXCEPT !.pc = "PlayEvent"]
    /\ UNCHANGED <<otherVars, sdl_events, live_notes_, live_ticks_elapsed_,
                   live_sample_point_, live_queued, clock, audio, live_ops>>

\* PlayLiveMIDIEvent: player.PlayEvent({...})
PlayLive_PlayEvent ==
    /\ main.pc = "PlayEvent"
    /\ live_ticks_elapsed_' = LiveTicks(DefaultDeltaPerSecond, clock)
    /\ live_notes_' = PlayEventNotes(live_notes_, main.event,
                                     LiveTicks(DefaultDeltaPerSecond, clock))
    /\ main' = [main EXCEPT !.pc = "Rewind"]
    /\ UNCHANGED <<otherVars, sdl_events, live_sample_point_, live_queued, lock, clock,
                   audio, live_ops>>

\* PlayLiveMIDIEvent: generator.sample_point_ -= samples_queued
PlayLive_Rewind ==
    /\ main.pc = "Rewind"
    /\ live_sample_point_' =
          (live_sample_point_ - main.samples_queued + UnsignedMod) % UnsignedMod
    /\ main' = [main EXCEPT !.pc = "Unlock"]
    /\ UNCHANGED <<otherVars, sdl_events, live_notes_, live_ticks_elapsed_, live_queued,
                   lock, clock, audio, live_ops>>

\* PlayLiveMIDIEvent returns: the guard releases the lock if it holds it.
PlayLive_Unlock ==
    /\ main.pc = "Unlock"
    /\ lock' = IF lock = "main" THEN "none" ELSE lock
    /\ main' = [pc |-> "idle", event |-> NoEvent, samples_queued |-> 0]
    /\ UNCHANGED <<otherVars, sdl_events, live_notes_, live_ticks_elapsed_,
                   live_sample_point_, live_queued, clock, audio, live_ops>>

\* Audio_LiveCallback (audio thread), up to std::ranges::fill: the backend asks for
\* additional_amount when the stream runs low; nothing is done for less than 1.
Live_Begin ==
    /\ audio.pc = "idle"
    /\ live_ops < MaxLiveOps
    /\ live_queued < MaxQueued
    /\ \E additional_amount \in LivePullSizes :
          audio' = IF additional_amount < 1 THEN audio
                   ELSE [pc |-> "Lock", i |-> 0,
                         count |-> GenerateCount(SAMPLE_BUFFER_SIZE, additional_amount)]
    /\ live_ops' = live_ops + 1
    /\ UNCHANGED <<otherVars, sdl_events, live_notes_, live_ticks_elapsed_,
                   live_sample_point_, live_queued, lock, clock, main>>

\* Audio_LiveCallback: std::lock_guard<std::mutex> guard(sound_ctx->lock)
Live_Lock ==
    /\ audio.pc = "Lock"
    /\ lock = "none"
    /\ lock' = "audio"
    /\ audio' = [audio EXCEPT !.pc = "Generate"]
    /\ UNCHANGED <<otherVars, sdl_events, live_notes_, live_ticks_elapsed_,
                   live_sample_point_, live_queued, clock, main, live_ops>>

\* One iteration of the loop of Generator::GenerateSamples: ++sample_point_, then the
\* notes of GetCurrentNotes() are added to samples[i].
Live_GenerateSample ==
    /\ audio.pc = "Generate"
    /\ audio.i < audio.count
    /\ live_sample_point_' = (live_sample_point_ + 1) % UnsignedMod
    /\ audio' = [audio EXCEPT !.i = @ + 1]
    /\ UNCHANGED <<otherVars, sdl_events, live_notes_, live_ticks_elapsed_, live_queued,
                   lock, clock, main, live_ops>>

\* GenerateSamples returns count; SDL_PutAudioStreamData(stream, ..., samples)
Live_Put ==
    /\ audio.pc = "Generate"
    /\ audio.i = audio.count
    /\ live_queued' = live_queued + audio.count
    /\ audio' = [audio EXCEPT !.pc = "Unlock"]
    /\ UNCHANGED <<otherVars, sdl_events, live_notes_, live_ticks_elapsed_,
                   live_sample_point_, lock, clock, main, live_ops>>

\* Audio_LiveCallback returns: the guard releases the lock.
Live_Unlock ==
    /\ audio.pc = "Unlock"
    /\ lock' = IF lock = "audio" THEN "none" ELSE lock
    /\ audio' = [pc |-> "idle", count |-> 0, i |-> 0]
    /\ UNCHANGED <<otherVars, sdl_events, live_notes_, live_ticks_elapsed_,
                   live_sample_point_, live_queued, clock, main, live_ops>>

LiveNext ==
    \/ Tick
    \/ DevicePlays
    \/ ReadUSBPacket
    \/ SDL_AppEvent
    \/ PlayLive_GetQueued
    \/ PlayLive_Clear
    \/ PlayLive_Lock
    \/ PlayLive_PlayEvent
    \/ PlayLive_Rewind
    \/ PlayLive_Unlock
    \/ Live_Begin
    \/ Live_Lock
    \/ Live_GenerateSample
    \/ Live_Put
    \/ Live_Unlock

LiveSpec == Init /\ [][LiveNext]_vars

----------------------------------------------------------------------------
\* Both playback units of the SoundContext: Audio_FileCallback statement by statement
\* on the audio thread, the main thread attaching the Documents of an exercise.

\* The Documents of the exercises: Game::GetCurrentCadenceMIDI(), GetCurrentExercise()->midi
ExerciseDocs ==
    DocsWithin(IF MaxExercise < MaxLoad - loaded THEN MaxExercise ELSE MaxLoad - loaded - 1)

liveUnitVars == <<live_notes_, live_ticks_elapsed_, live_sample_point_, live_queued,
                  clock, audio>>

\* Audio_FileCallback up to std::ranges::fill: nothing is done for less than 1.
File_Begin ==
    /\ file_audio.pc = "idle"
    /\ live_ops < MaxLiveOps
    /\ \E additional_amount \in PullSizes :
          file_audio' = IF additional_amount < 1 THEN file_audio
                        ELSE [pc |-> "Lock", additional_amount |-> additional_amount,
                              samples |-> 0]
    /\ live_ops' = live_ops + 1
    /\ UNCHANGED <<playerVars, historyVars, bridgeVars, bridgeHistoryVars, liveUnitVars,
                   lock, main, decodeVars, generatorVars, gameVars>>

\* Audio_FileCallback: std::lock_guard<std::mutex> guard(sound_ctx->lock)
File_Lock ==
    /\ file_audio.pc = "Lock"
    /\ lock = "none"
    /\ lock' = "file_audio"
    /\ file_audio' = [file_audio EXCEPT !.pc = "Loop"]
    /\ UNCHANGED <<playerVars, historyVars, bridgeVars, bridgeHistoryVars, liveUnitVars,
                   main, live_ops, decodeVars, generatorVars, gameVars>>

\* Audio_FileCallback: one iteration of the while loop and the test of its condition.
File_Iterate ==
    /\ file_audio.pc = "Loop"
    /\ \E ub \in (IF NegativeRequest THEN UndefinedConversions ELSE {0}) :
       \E it \in {FileCallbackIteration(
                    [samples |-> file_audio.samples,
                     player |-> FilePlayer,
                     samples_since_last_event |-> samples_since_last_event,
                     sample_point |-> file_sample_point_,
                     intervals |-> intervals,
                     since_advance |-> since_advance,
                     exhausted |-> exhausted,
                     applied |-> applied,
                     consumed |-> consumed], ub)} :
            /\ SetFilePlayer(it.state.player)
            /\ samples_since_last_event' = it.state.samples_since_last_event
            /\ file_sample_point_' = it.state.sample_point
            /\ intervals' = it.state.intervals
            /\ since_advance' = it.state.since_advance
            /\ exhausted' = it.state.exhausted
            /\ applied' = it.state.applied
            /\ consumed' = it.state.consumed
            /\ file_audio' = [file_audio EXCEPT
                  !.samples = it.state.samples,
                  !.pc = IF it.again /\ it.state.samples < file_audio.additional_amount
                         THEN "Loop" ELSE "Put"]
            /\ last_op' = "Audio_FileCallback"
            /\ last_ret' = it.state.samples
            /\ before' = FilePlayer
    /\ UNCHANGED <<sdl_events, attaches, fresh, loaded, liveVars, decodeVars,
                   generatorVars, gameVars>>

\* Audio_FileCallback: SDL_PutAudioStreamData, then the guard releases the lock.
File_Return ==
    /\ file_audio.pc = "Put"
    /\ lock' = IF lock = "file_audio" THEN "none" ELSE lock
    /\ file_audio' = [pc |-> "idle", additional_amount |-> 0, samples |-> 0]
    /\ UNCHANGED <<playerVars, historyVars, bridgeVars, bridgeHistoryVars, liveUnitVars,
                   main, live_ops, decodeVars, generatorVars, gameVars>>

\* AppContext::BeginExercise (key R) and AppContext::MIDIEnded (MIDIPlayerEndEvent), on
\* the main thread, up to the call of player.SetMIDI.
App_BeginExercise ==
    /\ main.pc = "idle"
    /\ live_ops < MaxLiveOps
    /\ loaded < MaxLoad
    /\ main' = [main EXCEPT !.pc = "SetMIDI"]
    /\ live_ops' = live_ops + 1
    /\ UNCHANGED <<playerVars, historyVars, bridgeVars, bridgeHistoryVars, liveUnitVars,
                   lock, fileThreadVars, decodeVars, generatorVars, gameVars>>

\* BeginExercise, MIDIEnded: player.SetMIDI(...), and the return.
App_SetMIDI ==
    /\ main.pc = "SetMIDI"
    /\ AttachDocument(ExerciseDocs)
    /\ main' = [main EXCEPT !.pc = "idle"]
    /\ UNCHANGED <<liveUnitVars, lock, live_ops, fileThreadVars, decodeVars,
                   generatorVars, gameVars>>

UnitsNext ==
    \/ ReadUSBPacket
    \/ SDL_AppEvent
    \/ PlayLive_GetQueued
    \/ PlayLive_Clear
    \/ PlayLive_Lock
    \/ PlayLive_PlayEvent
    \/ PlayLive_Rewind
    \/ PlayLive_Unlock
    \/ Live_Begin
    \/ Live_Lock
    \/ Live_GenerateSample
    \/ Live_Put
    \/ Live_Unlock
    \/ File_Begin
    \/ File_Lock
    \/ File_Iterate
    \/ File_Return
    \/ App_BeginExercise
    \/ App_SetMIDI

UnitsSpec == Init /\ [][UnitsNext]_vars

----------------------------------------------------------------------------
\* Decoding a Standard MIDI File: Stream (src/src/stream.h, stream.cc), the reads of
\* src/unnamed/part_001, Track::FromStream, MIDI::FromStream. A file is a sequence of
\* bytes 0..255; the position of the FILE* counts the bytes before it.

\* enum class EventType : uint8_t
NOTE_OFF == 128
NOTE_ON == 144
POLYPHONIC_PRESSURE == 160
CONTROLLER == 176
PROGRAM_CHANGE == 192
CHANNEL_PRESSURE == 208
PITCH_BEND == 224
SYSEX == 240
META == 255

\* enum class MetaType : uint8_t
END_TRACK == 47
TEMPO == 81

\* fread(dest, 1, size, file_) at position pos: all of the bytes, or a short read that
\* leaves the position at the end of the file (a position set beyond it stays).
FRead(bytes, pos, size) ==
    IF pos + size <= Len(bytes)
    THEN [ok |-> TRUE, data |-> SubSeq(bytes, pos + 1, pos + size), pos |-> pos + size]
    ELSE [ok |-> FALSE, data |-> <<>>,
          pos |-> IF pos > Len(bytes) THEN pos ELSE Len(bytes)]

\* Mutant of Skip: one byte less is passed over.
SkipOneLess(pos, bytes) == pos + bytes - 1

\* Stream::Skip(bytes): fseek(file_, bytes, SEEK_CUR), which may pass the end.
Skip(pos, bytes) == pos + bytes

\* The loop of TypedRead<VariableLengthInt> from its iteration i. The value stays
\* below 2^28, so the uint32_t never wraps.
RECURSIVE VariableLengthLoop(_, _, _, _)
VariableLengthLoop(bytes, pos, i, value) ==
    IF i = 4 THEN [ok |-> TRUE, value |-> value, pos |-> pos]
    ELSE
    LET r == FRead(bytes, pos, 1) IN
    IF ~r.ok THEN [ok |-> FALSE, value |-> 0, pos |-> r.pos]
    ELSE
    LET byte == r.data[1]
        shifted == value * 128 + (byte % 128)
    IN  IF byte \div 128 = 0
        THEN [ok |-> TRUE, value |-> shifted, pos |-> r.pos]
        ELSE VariableLengthLoop(bytes, r.pos, i + 1, shifted)

\* Mutant of TypedReadVariableLengthInt: every byte read is the last one.
TypedReadFirstByteOnly(bytes, pos) ==
    LET r == FRead(bytes, pos, 1) IN
    IF r.ok THEN [ok |-> TRUE, value |-> r.data[1] % 128, pos |-> r.pos]
    ELSE [ok |-> FALSE, value |-> 0, pos |-> r.pos]

\* TypedRead<VariableLengthInt>(stream)
TypedReadVariableLengthInt(bytes, pos) == VariableLengthLoop(bytes, pos, 0, 0)

\* Mutant of TypedReadUInt24: the first byte taken as the least significant.
TypedReadUInt24LittleEndian(bytes, pos) ==
    LET r == FRead(bytes, pos, 3) IN
    IF r.ok
    THEN [ok |-> TRUE, pos |-> r.pos,
          value |-> (r.data[3] * 256 + r.data[2]) * 256 + r.data[1]]
    ELSE [ok |-> FALSE, value |-> 0, pos |-> r.pos]

\* TypedRead<UInt24>(stream): three bytes, the first the most significant.
TypedReadUInt24(bytes, pos) ==
    LET b1 == FRead(bytes, pos, 1)
        b2 == FRead(bytes, b1.pos, 1)
        b3 == FRead(bytes, b2.pos, 1)
    IN  IF b1.ok /\ b2.ok /\ b3.ok
        THEN [ok |-> TRUE, pos |-> b3.pos,
              value |-> (b1.data[1] * 256 + b2.data[1]) * 256 + b3.data[1]]
        ELSE [ok |-> FALSE, value |-> 0, pos |-> b3.pos]

\* Event with the note_event member of the union set.
NoteEvent(d, type, n, v) ==
    [delta_time |-> d, type |-> type, meta_type |-> "NONE",
     note |-> n, velocity |-> v, usec_per_quarter_note |-> 0]

\* What the objects read without initialisation may hold: running_type before the
\* first status byte of a track, and the tuple taken with get_unchecked() from a
\* result that holds an error.
Uninitialised ==
    {[running_type |-> 0, note |-> 0, velocity |-> 0],
     [running_type |-> NOTE_ON, note |-> 255, velocity |-> 255]}

\* Mutant of StatusInForce: a byte below 0x80 is taken for a status byte.
StatusAlwaysRead(type, running_type) == type

\* The status byte an event is decoded with: the one read, or running_type when the
\* byte read is below 0x80.
StatusInForce(type, running_type) ==
    IF type - (type % 16) < NOTE_OFF THEN running_type ELSE type

\* Mutant of EndsTrack: the loop goes on after an end-of-track.
NeverEndsTrack(meta_type) == FALSE

\* if (meta_type == MetaType::END_TRACK) { push_back; break; } leaves the loop.
EndsTrack(meta_type) == meta_type = END_TRACK

\* Mutant of MetaInfoMissing: only the read of the meta type is checked.
MetaTypeMissing(meta_read, length) == ~meta_read.ok

\* meta_event_info.is_error(): the read of the meta type or of the length failed.
MetaInfoMissing(meta_read, length) == ~meta_read.ok \/ ~length.ok

\* Mutant of StoredType: the event keeps the type of its status byte.
StoredTypeOfStatus(e_type, vel) == IF e_type = NOTE_OFF THEN "NOTE_OFF" ELSE "NOTE_ON"

\* .type = vel == 0 ? EventType::NOTE_OFF : e_type, for e_type NOTE_OFF or NOTE_ON
StoredType(e_type, vel) ==
    IF vel = 0 \/ e_type = NOTE_OFF THEN "NOTE_OFF" ELSE "NOTE_ON"

\* One pass of the while (true) loop of Track::FromStream, from position pos with
\* the events stored so far: an error, the end of the track (done), or the next pass.
EventFromStream(bytes, pos, running_type, events, ub) ==
    LET delta == TypedReadVariableLengthInt(bytes, pos)
        type_read == FRead(bytes, delta.pos, 1)
        type == type_read.data[1]
        Failed(error, at) ==
            [is_error |-> TRUE, done |-> TRUE, type |-> error, byte_position |-> at,
             pos |-> at, running_type |-> running_type, events |-> events]
        Passed(at, running, evs, done) ==
            [is_error |-> FALSE, done |-> done, type |-> "none", byte_position |-> 0,
             pos |-> at, running_type |-> running, events |-> evs]
    IN
    IF ~delta.ok \/ ~type_read.ok THEN Failed("MISSING_EVENT", type_read.pos)
    ELSE IF type = META THEN
        LET meta_read == FRead(bytes, type_read.pos, 1)
            meta_type == meta_read.data[1]
            length == TypedReadVariableLengthInt(bytes, meta_read.pos)
        IN
        IF MetaInfoMissing(meta_read, length) THEN Failed("BAD_EVENT", length.pos)
        ELSE IF meta_type = END_TRACK
        THEN Passed(length.pos, running_type,
                    Append(events, EndTrackEvent(delta.value)), EndsTrack(meta_type))
        ELSE IF meta_type = TEMPO
        THEN LET usec_per_quarter == TypedReadUInt24(bytes, length.pos) IN
             IF ~usec_per_quarter.ok THEN Failed("BAD_EVENT", usec_per_quarter.pos)
             ELSE Passed(usec_per_quarter.pos, running_type,
                         Append(events, TempoEvent(delta.value, usec_per_quarter.value)),
                         FALSE)
        ELSE Passed(Skip(length.pos, length.value), running_type, events, FALSE)
    ELSE
        LET running == type - (type % 16) < NOTE_OFF
            now_running == StatusInForce(type, running_type)
            type_byte == now_running - (now_running % 16)
            at == IF running THEN Skip(type_read.pos, -1) ELSE type_read.pos
        IN
        IF type_byte \in {NOTE_OFF, NOTE_ON}
        THEN LET note_read == FRead(bytes, at, 2)
                 note == IF note_read.ok THEN note_read.data[1] ELSE ub.note
                 vel == IF note_read.ok THEN note_read.data[2] ELSE ub.velocity
             IN  Passed(note_read.pos, now_running,
                        Append(events,
                               NoteEvent(delta.value, StoredType(type_byte, vel),
                                         note, vel)),
                        FALSE)
        ELSE IF type_byte \in {POLYPHONIC_PRESSURE, PITCH_BEND, CONTROLLER}
        THEN Passed(Skip(at, 2), now_running, events, FALSE)
        ELSE IF type_byte \in {PROGRAM_CHANGE, CHANNEL_PRESSURE}
        THEN Passed(Skip(at, 1), now_running, events, FALSE)
        ELSE IF type_byte = SYSEX
        THEN Passed(at, now_running, events, FALSE)
        ELSE Failed("BAD_EVENT", at)

\* Track::FromStream(file): the loop, from the position after the chunk header.
RECURSIVE TrackLoop(_, _, _, _, _)
TrackLoop(bytes, pos, running_type, events, ub) ==
    LET pass == EventFromStream(bytes, pos, running_type, events, ub) IN
    IF pass.done THEN pass
    ELSE TrackLoop(bytes, pass.pos, pass.running_type, pass.events, ub)

TrackFromStream(bytes, pos, ub) == TrackLoop(bytes, pos, ub.running_type, <<>>, ub)

\* "MThd", "MTrk"
MThd == <<77, 84, 104, 100>>
MTrk == <<77, 84, 114, 107>>

\* to_native_endian of a uint16_t read from the file.
UInt16(data) == data[1] * 256 + data[2]

\* An Error built with the default byte position.
DecodeErrorWithoutPosition(error, at) ==
    [is_error |-> TRUE, opened |-> TRUE, type |-> error, byte_position |-> 0]

\* tb::result<MIDI, Error> holding an Error, or a MIDI.
DecodeError(error, at) ==
    [is_error |-> TRUE, opened |-> TRUE, type |-> error, byte_position |-> at]

\* The for loop of MIDI::FromStream from track i, with the tracks decoded so far.
RECURSIVE TracksFromStream(_, _, _, _, _, _)
TracksFromStream(bytes, pos, i, track_count, midi, ub) ==
    IF ~(i < track_count)
    THEN [is_error |-> FALSE, opened |-> TRUE, midi |-> midi, pos |-> pos]
    ELSE
    LET chunk_type == FRead(bytes, pos, 4)
        chunk_length == FRead(bytes, chunk_type.pos, 4)
    IN
    IF ~chunk_type.ok \/ chunk_type.data # MTrk
    THEN DecodeError("MISSING_TRACK", chunk_type.pos)
    ELSE IF ~chunk_length.ok THEN DecodeError("MISSING_TRACK", chunk_length.pos)
    ELSE
    LET track == TrackFromStream(bytes, chunk_length.pos, ub) IN
    IF track.is_error THEN DecodeError(track.type, track.byte_position)
    ELSE TracksFromStream(bytes, track.pos, i + 1, track_count,
                          [midi EXCEPT !.tracks_ = Append(@, [events |-> track.events])],
                          ub)

\* MIDI::FromStream(file)
MIDIFromStream(bytes, ub) ==
    LET chunk_type == FRead(bytes, 0, 4)
        chunk_length == FRead(bytes, chunk_type.pos, 4)
        format == FRead(bytes, chunk_length.pos, 2)
        track_count == FRead(bytes, format.pos, 2)
        tick_div == FRead(bytes, track_count.pos, 2)
    IN
    IF ~chunk_type.ok \/ chunk_type.data # MThd THEN DecodeError("NO_HEADER_FOUND", 0)
    ELSE IF ~chunk_length.ok \/ ~format.ok \/ ~track_count.ok \/ ~tick_div.ok
    THEN DecodeError("INCOMPLETE_HEADER", tick_div.pos)
    ELSE IF UInt16(format.data) > 2 THEN DecodeError("INVALID_FORMAT", tick_div.pos)
    ELSE TracksFromStream(bytes, tick_div.pos, 0, UInt16(track_count.data),
                          [tracks_ |-> <<>>,
                           tick_division_ |-> UInt16(tick_div.data) % 32768],
                          ub)

\* ---- the files read ----

\* events written to the first track of a file, before its end-of-track
MaxItems == 3
\* bytes missing at the end of a truncated file
MaxCut == 6

\* What a writer puts into a track: the bytes of the delta time and of the message,
\* and what they encode. kind "running" is a message without its status byte.
Item(bytes, delta, kind, note, velocity, usec) ==
    [bytes |-> bytes, delta |-> delta, kind |-> kind, note |-> note,
     velocity |-> velocity, usec |-> usec]

Items ==
    {Item(<<0, 144, 60, 100>>, 0, "note_on", 60, 100, 0),
     Item(<<64, 145, 62, 0>>, 64, "note_on", 62, 0, 0),
     Item(<<255, 255, 255, 127, 128, 60, 64>>, 268435455, "note_off", 60, 64, 0),
     Item(<<129, 0, 62, 80>>, 128, "running", 62, 80, 0),
     Item(<<0, 64, 0>>, 0, "running", 64, 0, 0),
     Item(<<129, 128, 128, 128, 176, 7, 100>>, 2097152, "controller", 0, 0, 0),
     Item(<<0, 192, 5>>, 0, "program_change", 0, 0, 0),
     Item(<<0, 255, 81, 3, 7, 161, 32>>, 0, "tempo", 0, 0, 500000),
     Item(<<0, 255, 3, 1, 65>>, 0, "text", 0, 0, 0),
     Item(<<0, 240>>, 0, "sysex", 0, 0, 0),
     Item(<<0, 241>>, 0, "undefined", 0, 0, 0),
     Item(<<0, 255, 47, 0>>, 0, "end", 0, 0, 0)}

EndItem == Item(<<0, 255, 47, 0>>, 0, "end", 0, 0, 0)

RECURSIVE ItemsOfLen(_)
ItemsOfLen(n) ==
    IF n = 0 THEN {<<>>}
    ELSE {<<item>> \o rest : item \in Items, rest \in ItemsOfLen(n - 1)}

RECURSIVE Flatten(_)
Flatten(items) == IF items = <<>> THEN <<>> ELSE Head(items).bytes \o Flatten(Tail(items))

\* The status bytes a writer uses for the channel messages the decoder passes over:
\* `two` for the item of kind "controller" (two data bytes), `one` for the item of
\* kind "program_change" (one data byte).
DefaultIgnored == [two |-> CONTROLLER, one |-> PROGRAM_CHANGE]

IgnoredStatuses ==
    {DefaultIgnored,
     [two |-> POLYPHONIC_PRESSURE, one |-> CHANNEL_PRESSURE],
     [two |-> PITCH_BEND, one |-> CHANNEL_PRESSURE]}

\* The bytes of an item, with the status byte of the source.
BytesOf(item, ignored) ==
    IF item.kind = "controller"
    THEN [item.bytes EXCEPT ![Len(item.bytes) - 2] = ignored.two]
    ELSE IF item.kind = "program_change"
    THEN [item.bytes EXCEPT ![Len(item.bytes) - 1] = ignored.one]
    ELSE item.bytes

RECURSIVE FlattenAs(_, _)
FlattenAs(items, ignored) ==
    IF items = <<>> THEN <<>>
    ELSE BytesOf(Head(items), ignored) \o FlattenAs(Tail(items), ignored)

\* The items a source writes to its first track.
Written(src) == src.items \o (IF src.terminated THEN <<EndItem>> ELSE <<>>)

\* A track chunk: "MTrk", the length of the body (below 256 here), the body.
Chunk(body) == MTrk \o <<0, 0, 0, Len(body)>> \o body

\* The two bytes of the division field of a header: 480 ticks per quarter note, and
\* the SMPTE sub-format (top bit set) of 25 frames per second, 40 ticks per frame,
\* and a field of 0.
TicksPerQuarterNote == <<1, 224>>
SMPTE == <<231, 40>>
ZeroDivision == <<0, 0>>

\* The bytes of the file of a source: header chunk (format 1, the track count, the
\* division), then the chunks written: the first track, a second track with only an
\* end-of-track.
FileOf(src) ==
    LET whole == MThd \o <<0, 0, 0, 6>> \o <<0, 1>> \o <<0, src.tracks>> \o src.division
                 \o (IF src.chunks >= 1
                     THEN Chunk(FlattenAs(Written(src), src.ignored)) ELSE <<>>)
                 \o (IF src.chunks >= 2 THEN Chunk(EndItem.bytes) ELSE <<>>)
    IN  SubSeq(whole, 1, Len(whole) - src.cut)

\* fopen(path, "rb") of MIDI::FromFile: some file is there to read. How it was
\* written: the track count and the division of the header, how many of the track
\* chunks follow it, the items of the first track, whether an end-of-track follows
\* them, the bytes cut off the end (of a file with one track or with no chunk).
OpenFile ==
    /\ file = <<>>
    /\ \E n \in 0..MaxItems, terminated \in BOOLEAN, cut \in 0..MaxCut, tracks \in {1, 2} :
       \E chunks \in 0..tracks, division \in {TicksPerQuarterNote, SMPTE, ZeroDivision},
          ignored \in IgnoredStatuses, items \in ItemsOfLen(n) :
          /\ (tracks = 2 /\ chunks > 0) => cut = 0
          /\ chunks = 0 => (n = 0 /\ ~terminated)
          /\ division # TicksPerQuarterNote => (cut = 0 /\ chunks = tracks /\ tracks = 1)
          /\ ignored # DefaultIgnored =>
                /\ cut = 0 /\ chunks = tracks /\ tracks = 1
                /\ division = TicksPerQuarterNote
                /\ \E k \in 1..n : items[k].kind \in {"controller", "program_change"}
          /\ \E src \in {[tracks |-> tracks, division |-> division, chunks |-> chunks,
                           items |-> items, terminated |-> terminated, cut |-> cut,
                           ignored |-> ignored]} :
                /\ source' = src
                /\ file' = FileOf(src)
    /\ UNCHANGED <<playerVars, historyVars, bridgeVars, bridgeHistoryVars, liveVars,
                   fileThreadVars, decoded, generatorVars, gameVars>>

\* MIDI::FromFile: return FromStream(file)
FromFile ==
    /\ file # <<>>
    /\ ~decoded.opened
    /\ \E ub \in Uninitialised : decoded' = MIDIFromStream(file, ub)
    /\ UNCHANGED <<playerVars, historyVars, bridgeVars, bridgeHistoryVars, liveVars,
                   fileThreadVars, file, source, generatorVars, gameVars>>

DecodeNext == OpenFile \/ FromFile

DecodeSpec == Init /\ [][DecodeNext]_vars

----------------------------------------------------------------------------
\* The sample synthesizer: Generator::GenerateSamples, as src/src/sound.cc has it
\* (GenerateSamples below) and as src/unnamed/part_004 has it (GenerateSamplesPerNote:
\* the loop over the notes is the outer one there).
\*
\* The samples themselves are floats the model does not compute. What is kept of each
\* produced sample is, per active note, what the sample is computed from: the note
\* number given to the waveform, the phase index `point`, and the time elapsed since
\* the onset of the note that feeds the envelope 2^(-elapsed / half_life), kept as an
\* exact number of samples (a rational with the denominator of samples_per_tick).

\* samples asked of one call
MaxCount == 3

\* player_transposition(-6, 6) of AppContext::BeginExercise
MAX_TRANSPOSITION == 6

UINT_MAX == UnsignedMod - 1

\* Values of sample_point_ before a call: far from and next to the wrap.
SamplePoints == {0, 1, UnsignedMod - 2, UnsignedMod - 1}

\* std::span<Sample>::size() of the destination
SpanSizes == {0, 2, SAMPLE_BUFFER_SIZE}

\* sample_offset: samples_since_last_event of the caller
SampleOffsets == {0, 1, 3000}

Note(time, velocity) == [time |-> time, velocity |-> velocity]

\* midi_status.GetCurrentNotes(): no note, one, and two at the ends of the range
NoteTables ==
    {<<>>,
     [n \in {60} |-> Note(0, 100)],
     [n \in {3, 125} |-> Note(0, 64)]}

\* player.transposition_offset_ = player_transposition(rand_dev): an int stored in
\* a uint8_t
StoredTransposition(transposition) == (transposition + 256) % 256

\* The midi::Player a call reads.
Statuses ==
    {[notes |-> notes, ticks_elapsed |-> elapsed, delta_per_second |-> dps,
      transposition_offset_ |-> StoredTransposition(transposition)] :
        notes \in NoteTables, elapsed \in {0, 40},
        dps \in {DefaultDeltaPerSecond, TempoDeltaPerSecond(1000000, 480)},
        transposition \in (0 - MAX_TRANSPOSITION)..MAX_TRANSPOSITION}

\* sound.cc: unsigned start_point = sample_point_ - sample_offset
StartPoint(sample_point, sample_offset) ==
    (sample_point - (sample_offset % UnsignedMod) + UnsignedMod) % UnsignedMod

\* sound.cc: sample_point_ < start_point ? (UINT32_MAX - start_point + sample_point_)
\*                                       : (sample_point_ - start_point)
SamplePointDiff(sample_point, start_point) ==
    IF sample_point < start_point
    THEN (UINT_MAX - start_point + sample_point) % UnsignedMod
    ELSE sample_point - start_point

\* sound.cc: midi::Ticks extra_time = sample_point_diff / samples_per_tick, a float
\* converted to an unsigned integer
ExtraTime(sample_point_diff, samples_per_tick) ==
    (sample_point_diff * samples_per_tick.den) \div samples_per_tick.num

\* sound.cc: float time_diff = (current_time + extra_time - info.time)
\*                             / midi_status.GetDeltaPerSecond(), in samples
TimeDiff(current_time, extra_time, time, samples_per_tick) ==
    [num |-> SubTicks(AddTicks(current_time, extra_time), time) * samples_per_tick.num,
     den |-> samples_per_tick.den]

\* Generator::GenerateSamples of src/src/sound.cc on a generator with sample_point_ =
\* sample_point: the value returned, sample_point_ after the call, and per produced
\* sample the sample_point_diff and the voices added to it.
GenerateSamples(sample_point, status, call) ==
    LET count == GenerateCount(call.size, call.count)
        start_point == StartPoint(sample_point, call.sample_offset)
        current_time == status.ticks_elapsed
        samples_per_tick == SamplesPerTick(SAMPLE_RATE, status.delta_per_second)
        point(i) == (sample_point + i) % UnsignedMod
        diff(i) == SamplePointDiff(point(i), start_point)
    IN  [returned |-> count,
         sample_point |-> point(count),
         diffs |-> [i \in 1..count |-> diff(i)],
         voices |-> [i \in 1..count |->
            {[note |-> note,
              point |-> point(i),
              elapsed |-> TimeDiff(current_time, ExtraTime(diff(i), samples_per_tick),
                                   status.notes[note].time, samples_per_tick)]
             : note \in DOMAIN status.notes}]]

\* Mutant of InitialTicksDiff: the samples already produced since the last event
\* are not counted.
InitialTicksDiffWithoutOffset(current_time, time, sample_offset, samples_per_tick) ==
    [num |-> SubTicks(current_time, time) * samples_per_tick.num,
     den |-> samples_per_tick.den]

\* part_004: float initial_ticks_diff = current_time - info.time
\*     + (sample_offset * midi_status.GetDeltaPerSecond() / sample_rate_), in samples
InitialTicksDiff(current_time, time, sample_offset, samples_per_tick) ==
    [num |-> SubTicks(current_time, time) * samples_per_tick.num
             + sample_offset * samples_per_tick.den,
     den |-> samples_per_tick.den]

\* part_004: decay *= decay_common_ratio, i times from the decay of
\* initial_ticks_diff: each one is a sample more of elapsed time.
Decayed(initial, i) == [num |-> initial.num + i * initial.den, den |-> initial.den]

\* part_004: std::clamp<uint8_t>(note + midi_status.transposition_offset_, 0, 127).
\* The sum is an int; it is converted to uint8_t for the call.
TransposedNote(note, transposition_offset) ==
    LET v == (note + transposition_offset) % 256 IN
    IF v < 0 THEN 0 ELSE IF 127 < v THEN 127 ELSE v

\* Generator::GenerateSamples of src/unnamed/part_004: for every note sample_point_
\* starts again from start_point and is incremented count times.
GenerateSamplesPerNote(sample_point, status, call) ==
    LET count == GenerateCount(call.size, call.count)
        current_time == status.ticks_elapsed
        samples_per_tick == SamplesPerTick(SAMPLE_RATE, status.delta_per_second)
        start_point == sample_point
        point(i) == (start_point + i) % UnsignedMod
    IN  [returned |-> count,
         sample_point |-> IF DOMAIN status.notes = {} THEN sample_point ELSE point(count),
         diffs |-> <<>>,
         voices |-> [i \in 1..count |->
            {[note |-> TransposedNote(note, status.transposition_offset_),
              point |-> point(i),
              elapsed |-> Decayed(InitialTicksDiff(current_time, status.notes[note].time,
                                                   call.sample_offset, samples_per_tick), i)]
             : note \in DOMAIN status.notes}]]

\* The version of GenerateSamples a call runs.
Generate(version, sample_point, status, call) ==
    IF version = "sound.cc"
    THEN GenerateSamples(sample_point, status, call)
    ELSE GenerateSamplesPerNote(sample_point, status, call)

\* One call on a playback unit that has played up to some point.
CallGenerator(version) ==
    /\ gen.pc = "none"
    /\ \E sample_point \in SamplePoints, status \in Statuses, count \in 0..MaxCount,
          size \in SpanSizes, sample_offset \in SampleOffsets :
          \E call \in {[count |-> count, size |-> size, sample_offset |-> sample_offset]} :
          \E out \in {Generate(version, sample_point, status, call)} :
             gen' = [pc |-> "done", version |-> version, sample_point |-> sample_point,
                     status |-> status, call |-> call,
                     out |-> [returned |-> out.returned, diffs |-> out.diffs,
                              voices |-> out.voices],
                     sample_point_ |-> out.sample_point]

\* generator.GenerateSamples(...) with the Generator of src/src/sound.cc
Call_GenerateSamples ==
    /\ CallGenerator("sound.cc")
    /\ UNCHANGED <<playerVars, historyVars, bridgeVars, bridgeHistoryVars, liveVars,
                   fileThreadVars, decodeVars, gameVars>>

\* generator.GenerateSamples(...) with the Generator of src/unnamed/part_004
Call_GenerateSamplesPerNote ==
    /\ CallGenerator("part_004")
    /\ UNCHANGED <<playerVars, historyVars, bridgeVars, bridgeHistoryVars, liveVars,
                   fileThreadVars, decodeVars, gameVars>>

GeneratorNext == Call_GenerateSamples \/ Call_GenerateSamplesPerNote

GeneratorSpec == Init /\ [][GeneratorNext]_vars

----------------------------------------------------------------------------
\* Notions the properties are stated with

Attached == midi_ptr_ # NullPtr

\* The tracks_ entries not marked done.
NotDone == {i \in 1..Len(tracks_) : ~tracks_[i].info.done}

\* The next unplayed event of tracks_[i].
NextEvent(i) ==
    EventAt(Deref(midi_ptr_), tracks_[i].track, tracks_[i].info.current_event_index + 1)

\* Absolute tick position of event `index` (from 0) of track tr: the sum of the
\* delta times of the track's events up to and including it.
RECURSIVE AbsTime(_, _, _)
AbsTime(doc, tr, index) ==
    IF index < 0 THEN 0
    ELSE doc.tracks_[tr].events[index + 1].delta_time + AbsTime(doc, tr, index - 1)

\* All events of a Document, as [track, index].
Occurrences(doc) ==
    {[track |-> tr, index |-> k] :
        tr \in 1..Len(doc.tracks_), k \in 0..(MaxLoad - 1)} \cap
    UNION {{[track |-> tr, index |-> k] : k \in 0..(Len(doc.tracks_[tr].events) - 1)}
           : tr \in 1..Len(doc.tracks_)}

EventOf(doc, o) == EventAt(doc, o.track, o.index)

\* o2 comes after o1 whatever the order in which events of one tick are applied:
\* later in the same track, or at a strictly later tick.
Follows(doc, o1, o2) ==
    \/ o1.track = o2.track /\ o2.index > o1.index
    \/ AbsTime(doc, o2.track, o2.index) > AbsTime(doc, o1.track, o1.index)

\* Every note-on is followed by a note-off of the same note.
Balanced(doc) ==
    \A o1 \in Occurrences(doc) :
        EventOf(doc, o1).type = "NOTE_ON" =>
            \E o2 \in Occurrences(doc) :
                /\ EventOf(doc, o2).type = "NOTE_OFF"
                /\ EventOf(doc, o2).note = EventOf(doc, o1).note
                /\ Follows(doc, o1, o2)

\* The last call was an Advance that reported end-of-sequence.
EndOfSequence == last_op = "Advance" /\ last_ret = "EndOfMIDIError"

\* The events the last (successful) Advance applied, in order.
LastApplied ==
    IF last_op = "Advance" /\ last_ret = "ok"
    THEN AppliedBy(before.tracks, tracks_, 1, ticks_elapsed_)
    ELSE <<>>

----------------------------------------------------------------------------
\* C1: TicksUntilNextEvent returns the minimum, over the tracks not marked done, of
\* (delta_time of the next unplayed event - playback_ticks), and none exactly when
\* every track is done or no Document is attached.
C1_TicksUntilNextEventIsMinimum ==
    LET r == TicksUntilNextEvent(midi_ptr_, tracks_)
        remaining(i) == NextEvent(i).delta_time - tracks_[i].info.playback_ticks
    IN  /\ (r = NullOpt) <=> (~Attached \/ NotDone = {})
        /\ r # NullOpt =>
              /\ \E i \in NotDone : r = remaining(i)
              /\ \A i \in NotDone : r <= remaining(i)

\* Two tracks are not done, with different distances to their next events, one of
\* them with ticks already consumed toward it.
C1_Witness ==
    /\ Attached
    /\ \E i, j \in NotDone :
          /\ tracks_[i].info.playback_ticks > 0
          /\ NextEvent(i).delta_time - tracks_[i].info.playback_ticks
               < NextEvent(j).delta_time - tracks_[j].info.playback_ticks

\* C2: the Advance calls since SetMIDI apply each track's events in track order,
\* none twice, at non-decreasing elapsed ticks; and once Advance reports
\* end-of-sequence every event of every track has been applied.
C2_EveryEventOnceInOrder ==
    /\ \A a, b \in 1..Len(applied) :
          a < b =>
            /\ applied[a].at <= applied[b].at
            /\ applied[a].track = applied[b].track => applied[a].index < applied[b].index
    /\ \A i \in 1..Len(tracks_) :
          {applied[a].index : a \in {x \in 1..Len(applied) : applied[x].track = tracks_[i].track}}
            = 0..tracks_[i].info.current_event_index
    /\ (EndOfSequence /\ Attached) =>
          {[track |-> applied[a].track, index |-> applied[a].index] : a \in 1..Len(applied)}
            = Occurrences(Deref(midi_ptr_))

\* A Document of two tracks, one of them with two events or more, played to its end.
C2_Witness ==
    /\ EndOfSequence
    /\ Attached
    /\ Len(tracks_) >= 2
    /\ Len(applied) >= 3
    /\ applied[1].at < applied[Len(applied)].at

\* C3: on a Player attached once, each event is applied when the elapsed ticks equal
\* its absolute tick position in its track, and the elapsed ticks equal the sum of
\* the ticks consumed by the successful Advance calls.
C3_ElapsedIsAbsolutePosition ==
    attaches = 1 =>
        /\ \A a \in 1..Len(applied) :
              applied[a].at = AbsTime(Deref(midi_ptr_), applied[a].track, applied[a].index)
        /\ ticks_elapsed_ = consumed

\* An event was applied on a track that had waited through an earlier Advance, after
\* an earlier event of the same track.
C3_Witness ==
    /\ attaches = 1
    /\ \E a \in 1..Len(applied) :
          /\ applied[a].index >= 1
          /\ applied[a].at > 0
          /\ \E b \in 1..Len(applied) :
                applied[b].track # applied[a].track /\ 0 < applied[b].at /\ applied[b].at < applied[a].at

\* C4: after Advance applied a note-on for note n with velocity v, the note table
\* entry of n has onset time = elapsed ticks and velocity v, also when n was already
\* sounding; after it applied a note-off for n, n is not sounding. (When one Advance
\* applies several events of n, the last one counts.)
C4_NoteOnOverwrites ==
    LET evs == LastApplied
        doc == Deref(midi_ptr_)
        ev(a) == EventAt(doc, evs[a].track, evs[a].index)
        IsLast(a) == \A b \in (a + 1)..Len(evs) :
                        ~(ev(b).type \in {"NOTE_ON", "NOTE_OFF"} /\ ev(b).note = ev(a).note)
    IN  \A a \in 1..Len(evs) :
          /\ (ev(a).type = "NOTE_ON" /\ IsLast(a)) =>
                /\ ev(a).note \in DOMAIN notes_
                /\ notes_[ev(a).note] = [time |-> ticks_elapsed_, velocity |-> ev(a).velocity]
          /\ (ev(a).type = "NOTE_OFF" /\ IsLast(a)) => ev(a).note \notin DOMAIN notes_

C6_EndOfSequenceIsStable ==
    [][(TicksUntilNextEvent(midi_ptr_, tracks_) = NullOpt /\ last_op' = "Advance") =>
          /\ last_ret' = "EndOfMIDIError"
          /\ UNCHANGED playerVars
          /\ TicksUntilNextEvent(midi_ptr_', tracks_') = NullOpt]_vars

\* Advance failed on an attached Player with elapsed ticks and a sounding note.
C6_Witness ==
    /\ EndOfSequence
    /\ Attached
    /\ Len(tracks_) >= 1
    /\ ticks_elapsed_ > 0
    /\ notes_ # <<>>

\* C7: after SetMIDI(doc) the Player holds one cursor per track of doc, in track
\* order, each 'before first', with playback_ticks 0 and done false.
C7_SetMIDIResetsCursors ==
    last_op = "SetMIDI" =>
        /\ Attached
        /\ tracks_ = [i \in 1..Len(Deref(midi_ptr_).tracks_) |->
                        [track |-> i,
                         info |-> [current_event_index |-> -1, playback_ticks |-> 0,
                                   done |-> FALSE]]]

\* SetMIDI on a Player that held advanced cursors of another Document.
C7_Witness ==
    /\ last_op = "SetMIDI"
    /\ Len(tracks_) >= 1
    /\ Len(before.tracks) >= 1
    /\ Len(before.tracks) # Len(tracks_)
    /\ \E i \in 1..Len(before.tracks) : before.tracks[i].info.current_event_index >= 0

\* C8: in file mode, whatever the sizes of the pulls, the samples synthesized between
\* two consecutive Advance calls are floor(ticks x samples_per_tick), where ticks is
\* what TicksUntilNextEvent returned for the interval (stated for the intervals during
\* which the Document was not replaced).
C8_SamplesPerInterval ==
    \A k \in 1..Len(intervals) :
        ~intervals[k].interrupted =>
            intervals[k].samples
              = (intervals[k].ticks * intervals[k].samples_per_tick.num)
                  \div intervals[k].samples_per_tick.den

\* An interval that took two pulls or more, because the buffer ran out in its middle.
C8_Witness ==
    \E k \in 1..Len(intervals) :
        /\ ~intervals[k].interrupted
        /\ intervals[k].pulls >= 2
        /\ intervals[k].samples > SAMPLE_BUFFER_SIZE

\* C9: when a pull finds every track of the attached Document done, a
\* MIDIPlayerEndEvent is eventually pushed to the application's event queue.
C9_EndEventEventuallyRaised ==
    exhausted ~> (\E k \in 1..Len(sdl_events) : sdl_events[k].type = "MIDIPlayerEndEvent")

\* The main thread is at a statement of PlayLiveMIDIEvent that reads or writes the
\* live note table or the live phase counter.
InjectAccesses == main.pc \in {"PlayEvent", "Rewind"}

\* The audio thread is inside GenerateSamples, which reads the live note table and
\* writes the live phase counter.
SynthesisAccesses == audio.pc = "Generate"

\* C10: in the live unit an injected event (PlayEvent and the rewind of the phase
\* counter) and the synthesis of Audio_LiveCallback never overlap: each touches the
\* live note table and the live phase counter only while its thread holds the
\* SoundContext mutex.
C10_LiveAccessUnderLock ==
    /\ InjectAccesses => lock = "main"
    /\ SynthesisAccesses => lock = "audio"
    /\ ~(InjectAccesses /\ SynthesisAccesses)

\* The synthesis is under way, a note sounding, while an injection waits for the lock.
C10_Witness ==
    /\ SynthesisAccesses
    /\ audio.i >= 1
    /\ audio.i < audio.count
    /\ main.pc = "Lock"
    /\ live_notes_ # <<>>

\* The statements of the main thread that write the file player.
AttachAccesses == main.pc = "SetMIDI"

\* The statements of Audio_FileCallback that read and write the file player.
FilePullAccesses == file_audio.pc = "Loop"

\* C11: the whole pull loop of Audio_FileCallback runs while holding the mutex, and so
\* does every SetMIDI on the file player: while a pull is in progress no other thread
\* is changing the cursors and the note table of the file player.
C11_FileAccessUnderLock ==
    FilePullAccesses => (lock = "file_audio" /\ ~AttachAccesses)

\* C12: the live unit and the file unit have independent locks: the main thread at
\* the lock of PlayLiveMIDIEvent and Audio_LiveCallback at its lock are never kept
\* waiting by a file pull that holds a lock, nor Audio_FileCallback at its lock by the
\* live pull or the inject.
C12_UnitsNeverContend ==
    /\ (main.pc = "Lock" \/ audio.pc = "Lock") => lock # "file_audio"
    /\ file_audio.pc = "Lock" => lock \notin {"audio", "main"}

\* The big-endian concatenation of the low 7 bits of the bytes of data.
RECURSIVE LowBitsOf(_)
LowBitsOf(data) ==
    IF data = <<>> THEN 0
    ELSE (Head(data) % 128) * 128 ^ (Len(data) - 1) + LowBitsOf(Tail(data))

\* The tracks of the Document decoded from the file.
DecodedTracks == IF decoded.opened /\ ~decoded.is_error THEN decoded.midi.tracks_ ELSE <<>>

\* C13: at every position of a file, reading a variable-length quantity consumes the
\* bytes up to and including the first one whose high bit is clear, at most 4, and
\* returns the big-endian concatenation of their low 7 bits; the read fails only when
\* the file ends before that. 0x40 gives 64, 0x81 0x00 gives 128, 0xFF 0xFF 0xFF 0x7F
\* gives 0x0FFFFFFF.
C13_VariableLengthQuantity ==
    /\ \A p \in 0..(Len(file) - 1) :
          LET left == Len(file) - p
              last == {k \in 1..4 : k <= left /\ file[p + k] < 128}
              n == IF last = {} THEN 4 ELSE CHOOSE k \in last : \A j \in last : k <= j
              r == TypedReadVariableLengthInt(file, p)
          IN  IF n > left THEN ~r.ok
              ELSE /\ r.ok
                   /\ r.pos = p + n
                   /\ r.value = LowBitsOf(SubSeq(file, p + 1, p + n))
    /\ TypedReadVariableLengthInt(<<64>>, 0).value = 64
    /\ TypedReadVariableLengthInt(<<129, 0>>, 0).value = 128
    /\ TypedReadVariableLengthInt(<<255, 255, 255, 127>>, 0).value = 268435455

\* A Document decoded from a track whose delta times were written with one, two and
\* four bytes.
C13_Witness ==
    /\ Len(DecodedTracks) = 1
    /\ {64, 128, 268435455} \subseteq
          {DecodedTracks[1].events[k].delta_time : k \in 1..Len(DecodedTracks[1].events)}

\* Where the events of the first track of a file begin: after the header chunk and
\* the header of the track chunk.
FirstTrackPos == Len(MThd) + 4 + 6 + Len(MTrk) + 4

\* The passes Track::FromStream makes over a track, in order: where each one starts,
\* what was stored and which status was in force before it, and what it leaves.
RECURSIVE PassesFrom(_, _, _, _, _)
PassesFrom(bytes, pos, running_type, events, ub) ==
    LET pass == EventFromStream(bytes, pos, running_type, events, ub)
        this == [at |-> pos, events |-> events, running_type |-> running_type,
                 pass |-> pass]
    IN  IF pass.done THEN <<this>>
        ELSE <<this>> \o PassesFrom(bytes, pass.pos, pass.running_type, pass.events, ub)

\* The passes over the first track of the file, when the file has one.
FirstTrackPasses(ub) ==
    IF Len(file) < FirstTrackPos THEN <<>>
    ELSE PassesFrom(file, FirstTrackPos, ub.running_type, <<>>, ub)

\* The position of the byte after the delta time of a pass, or -1 when the file ends
\* before it.
TypeByteAt(p) ==
    LET delta == TypedReadVariableLengthInt(file, p.at) IN
    IF delta.ok /\ delta.pos < Len(file) THEN delta.pos ELSE -1

\* The status byte, among the ones in `statuses`, read last before pass k; 0 if none.
RECURSIVE LastStatus(_, _, _)
LastStatus(passes, k, statuses) ==
    IF k = 1 THEN 0
    ELSE LET at == TypeByteAt(passes[k - 1]) IN
         IF at >= 0 /\ file[at + 1] \in statuses THEN file[at + 1]
         ELSE LastStatus(passes, k - 1, statuses)

\* Pass p decodes the byte at `at` as the first data byte of a message of the type
\* of `status`: a note message stores one event with the two data bytes, the other
\* channel messages are passed over, a system exclusive status consumes nothing.
DecodedWithStatus(p, at, status) ==
    LET type_byte == status - (status % 16)
        delta == TypedReadVariableLengthInt(file, p.at).value
    IN  CASE type_byte \in {NOTE_OFF, NOTE_ON} ->
                at + 2 <= Len(file) =>
                    /\ ~p.pass.is_error
                    /\ p.pass.pos = at + 2
                    /\ p.pass.events =
                          Append(p.events,
                                 NoteEvent(delta,
                                           IF type_byte = NOTE_ON /\ file[at + 2] > 0
                                           THEN "NOTE_ON" ELSE "NOTE_OFF",
                                           file[at + 1], file[at + 2]))
          [] type_byte \in {POLYPHONIC_PRESSURE, CONTROLLER, PITCH_BEND} ->
                ~p.pass.is_error /\ p.pass.pos = at + 2 /\ p.pass.events = p.events
          [] type_byte \in {PROGRAM_CHANGE, CHANNEL_PRESSURE} ->
                ~p.pass.is_error /\ p.pass.pos = at + 1 /\ p.pass.events = p.events
          [] OTHER ->
                ~p.pass.is_error /\ p.pass.pos = at /\ p.pass.events = p.events

\* Every event of the first track whose first byte after the delta time is below
\* 0x80 is decoded with the last of the earlier status bytes in `statuses`.
RunningStatusFollows(statuses) ==
    \A ub \in Uninitialised :
        LET passes == FirstTrackPasses(ub) IN
        \A k \in 1..Len(passes) :
            LET at == TypeByteAt(passes[k])
                status == LastStatus(passes, k, statuses)
            IN  (at >= 0 /\ file[at + 1] < NOTE_OFF /\ status # 0)
                    => DecodedWithStatus(passes[k], at, status)

\* C14 as claimed: an event whose first byte after the delta time is below 0x80 is
\* decoded with the message type of the most recent channel-message status byte
\* (0x80..0xEF) of the track, the byte read being its first data byte.
C14_RunningStatusIsLastChannelStatus == RunningStatusFollows(NOTE_OFF..(SYSEX - 1))

\* C14 as the decoder does it: the status reused is the most recent status byte of
\* the track other than a meta event's 0xFF, a system one (0xF0..0xFE) included, after
\* which the byte read is not consumed as data.
C14_RunningStatusIsLastStatus == RunningStatusFollows(NOTE_OFF..(META - 1))

\* Two consecutive note-ons, the second without its status byte, decoded to two
\* note-on events, each with its own note and velocity.
C14_Witness ==
    /\ Len(DecodedTracks) = 1
    /\ DecodedTracks[1].events =
          <<NoteEvent(0, "NOTE_ON", 60, 100), NoteEvent(128, "NOTE_ON", 62, 80),
            EndTrackEvent(0)>>

\* Pass p reads a complete end-of-track meta event (0xFF 0x2F and its length).
ReadsEndOfTrack(p) ==
    LET at == TypeByteAt(p) IN
    /\ at >= 0
    /\ at + 2 <= Len(file)
    /\ file[at + 1] = META
    /\ file[at + 2] = END_TRACK
    /\ TypedReadVariableLengthInt(file, at + 2).ok

IsEndOfTrack(e) == e.type = "META" /\ e.meta_type = "END_TRACK"

\* C15: every track of a successfully decoded Document has exactly one end-of-track
\* event, its last one; and the decoding of a track stops at the end-of-track meta
\* event, whatever follows it within the declared length of the chunk.
C15_EndOfTrackIsLast ==
    /\ \A tr \in 1..Len(DecodedTracks) :
          LET events == DecodedTracks[tr].events IN
          /\ events # <<>>
          /\ \A k \in 1..Len(events) : IsEndOfTrack(events[k]) <=> k = Len(events)
    /\ \A ub \in Uninitialised :
          LET passes == FirstTrackPasses(ub) IN
          \A k \in 1..Len(passes) :
             ReadsEndOfTrack(passes[k]) =>
                /\ k = Len(passes)
                /\ ~passes[k].pass.is_error
                /\ passes[k].pass.pos =
                      TypedReadVariableLengthInt(file, TypeByteAt(passes[k]) + 2).pos

\* A Document decoded from a track chunk that goes on after its end-of-track.
C15_Witness ==
    /\ Len(DecodedTracks) = 1
    /\ \E k \in 1..Len(source.items) :
          /\ source.items[k].kind = "end"
          /\ k < Len(source.items)
          /\ \A j \in 1..(k - 1) : source.items[j].kind = "note_on"

\* The index of the first end-of-track among the items written to the first track,
\* 0 if there is none.
FirstEnd(items) ==
    LET ends == {k \in 1..Len(items) : items[k].kind = "end"} IN
    IF ends = {} THEN 0 ELSE CHOOSE k \in ends : \A j \in ends : k <= j

\* The file ends before the end-of-track of one of the tracks its header counts: the
\* first track was written without one, or bytes up to it are cut off.
Truncated ==
    LET written == Written(source)
        first_end == FirstEnd(written)
        needed == IF source.tracks = 2
                  THEN FirstTrackPos + Len(Flatten(written)) + Len(Chunk(EndItem.bytes))
                  ELSE FirstTrackPos + Len(Flatten(SubSeq(written, 1, first_end)))
    IN  first_end = 0 \/ Len(file) < needed

\* C16: when the byte stream ends before the end-of-track meta event of a track was
\* read (inside a delta time, a status byte, the data bytes of a note event, a meta
\* event or a track chunk header), MIDI::FromFile returns an error, never a Document,
\* whatever the declared length of the track.
C16_TruncationIsAnError ==
    (decoded.opened /\ Truncated) => decoded.is_error

\* A file that ends between the two data bytes of a note-on, read to an error.
C16_Witness ==
    /\ decoded.opened
    /\ decoded.is_error
    /\ source.cut = 1
    /\ ~source.terminated
    /\ Len(source.items) = 2
    /\ source.items[2].bytes = <<0, 144, 60, 100>>

\* C17: a status byte 0xF1..0xFE (not a meta event, a channel message or the system
\* exclusive status 0xF0) makes the decoding of the track fail with a bad-event error
\* that carries the byte offset at which it was detected.
C17_UndefinedStatusIsBadEvent ==
    decoded.opened =>
    \A ub \in Uninitialised :
        LET passes == FirstTrackPasses(ub) IN
        \A k \in 1..Len(passes) :
            LET at == TypeByteAt(passes[k]) IN
            (at >= 0 /\ file[at + 1] \in (SYSEX + 1)..(META - 1)) =>
                /\ passes[k].pass.is_error
                /\ passes[k].pass.type = "BAD_EVENT"
                /\ passes[k].pass.byte_position = at + 1

\* The items of the first track up to and including its first end-of-track.
FirstTrackItems ==
    LET written == Written(source) IN SubSeq(written, 1, FirstEnd(written))

\* The items are note-on, note-off, tempo and end-of-track events, a note written
\* without status byte only after a note with one. noted: such a note came before.
RECURSIVE OnlyStoredKinds(_, _)
OnlyStoredKinds(items, noted) ==
    \/ items = <<>>
    \/ /\ \/ Head(items).kind \in {"note_on", "note_off", "tempo", "end"}
           \/ (Head(items).kind = "running" /\ noted)
        /\ OnlyStoredKinds(Tail(items), noted \/ Head(items).kind \in {"note_on", "note_off"})

\* The events the items encode, in order: status is the kind of the last note written
\* with a status byte; a note-on message with velocity 0 encodes a note-off event.
RECURSIVE EncodedEvents(_, _)
EncodedEvents(items, status) ==
    IF items = <<>> THEN <<>>
    ELSE
    LET item == Head(items)
        kind == IF item.kind = "running" THEN status ELSE item.kind
    IN  <<CASE kind = "note_on" ->
                    NoteEvent(item.delta,
                              IF item.velocity > 0 THEN "NOTE_ON" ELSE "NOTE_OFF",
                              item.note, item.velocity)
            [] kind = "note_off" ->
                    NoteEvent(item.delta, "NOTE_OFF", item.note, item.velocity)
            [] kind = "tempo" -> TempoEvent(item.delta, item.usec)
            [] OTHER -> EndTrackEvent(item.delta)>>
        \o EncodedEvents(Tail(items), IF item.kind \in {"note_on", "note_off"}
                                       THEN item.kind ELSE status)

\* The whole file is there and its chunks are the tracks the header counts.
WellFormedFile ==
    /\ source.cut = 0
    /\ source.chunks = source.tracks
    /\ FirstEnd(Written(source)) # 0
    /\ source.tracks = 2 => FirstEnd(Written(source)) = Len(Written(source))

\* C18: a track encoded from note-on, note-off, tempo and end-of-track events only is
\* decoded to exactly those events in the same order, each with its encoded delta
\* time and its payload: note and velocity, or the 3-byte big-endian microseconds per
\* quarter note.
C18_RoundTrip ==
    (decoded.opened /\ WellFormedFile /\ OnlyStoredKinds(FirstTrackItems, FALSE)) =>
        /\ ~decoded.is_error
        /\ Len(decoded.midi.tracks_) = source.tracks
        /\ decoded.midi.tracks_[1].events = EncodedEvents(FirstTrackItems, "none")

\* The Document of a file with one track: a note-on, a tempo event, the end-of-track.
C18_Witness ==
    /\ Len(DecodedTracks) = 1
    /\ Len(source.items) = 2
    /\ source.items[1].bytes = <<0, 144, 60, 100>>
    /\ source.items[2].kind = "tempo"
    /\ DecodedTracks[1].events =
          <<NoteEvent(0, "NOTE_ON", 60, 100), TempoEvent(0, 500000), EndTrackEvent(0)>>

\* The kinds of item Track::FromStream reads and stores nothing for.
Discarded == {"controller", "program_change", "text"}

\* The items are events that are stored or discarded, a note written without status
\* byte only while the last status byte written is that of a note.
RECURSIVE OnlyDecodedKinds(_, _)
OnlyDecodedKinds(items, noted) ==
    \/ items = <<>>
    \/ /\ \/ Head(items).kind \in {"note_on", "note_off", "tempo", "end"} \cup Discarded
           \/ (Head(items).kind = "running" /\ noted)
        /\ OnlyDecodedKinds(Tail(items),
                            CASE Head(items).kind \in {"note_on", "note_off"} -> TRUE
                              [] Head(items).kind \in {"controller", "program_change"} -> FALSE
                              [] OTHER -> noted)

\* The sum of the delta times of the first n of the items, or of the events.
RECURSIVE EncodedTicks(_, _)
EncodedTicks(items, n) == IF n = 0 THEN 0 ELSE items[n].delta + EncodedTicks(items, n - 1)

RECURSIVE StoredTicks(_, _)
StoredTicks(events, n) ==
    IF n = 0 THEN 0 ELSE events[n].delta_time + StoredTicks(events, n - 1)

\* The index of the item that encodes the k-th stored event.
RECURSIVE ItemOfStored(_, _, _)
ItemOfStored(items, k, from) ==
    IF items[from].kind \in Discarded THEN ItemOfStored(items, k, from + 1)
    ELSE IF k = 1 THEN from
    ELSE ItemOfStored(items, k - 1, from + 1)

\* C19: the delta time of every stored event is the number of ticks since the stored
\* event before it: the stored delta times up to and including an event add up to
\* the encoded delta times up to and including it, also with discarded events
\* (controller, program change, unknown meta) of non-zero delta time in between.
C19_StoredDeltasAccumulate ==
    (decoded.opened /\ WellFormedFile /\ OnlyDecodedKinds(FirstTrackItems, FALSE)) =>
        /\ ~decoded.is_error
        /\ LET events == decoded.midi.tracks_[1].events
                items == FirstTrackItems
            IN  /\ Len(events) = Cardinality({i \in 1..Len(items) :
                                                 items[i].kind \notin Discarded})
                /\ \A k \in 1..Len(events) :
                      StoredTicks(events, k) =
                          EncodedTicks(items, ItemOfStored(items, k, 1))

\* C20: a note-on message with velocity 0 is stored as a note-off event for its note,
\* whether its status byte 0x9n is read with it or is the last status byte read
\* before it (running status); with a velocity above 0 it is stored as a note-on.
C20_NoteOnVelocityZeroIsNoteOff ==
    \A ub \in Uninitialised :
        LET passes == FirstTrackPasses(ub) IN
        \A k \in 1..Len(passes) :
            LET at == TypeByteAt(passes[k])
                explicit == at >= 0 /\ file[at + 1] >= NOTE_OFF
                status == IF explicit THEN file[at + 1]
                          ELSE LastStatus(passes, k, NOTE_OFF..(META - 1))
                data == IF explicit THEN at + 1 ELSE at
            IN  (at >= 0 /\ status - (status % 16) = NOTE_ON /\ data + 2 <= Len(file)) =>
                    /\ ~passes[k].pass.is_error
                    /\ passes[k].pass.events =
                          Append(passes[k].events,
                                 NoteEvent(TypedReadVariableLengthInt(file, passes[k].at).value,
                                           IF file[data + 2] = 0 THEN "NOTE_OFF" ELSE "NOTE_ON",
                                           file[data + 1], file[data + 2]))

\* A Document with a note-off stored for a note-on message of velocity 0 with its
\* status byte, a note-on, and a note-off for a message of velocity 0 without one.
C20_Witness ==
    /\ Len(DecodedTracks) = 1
    /\ DecodedTracks[1].events =
          <<NoteEvent(64, "NOTE_OFF", 62, 0), NoteEvent(0, "NOTE_ON", 60, 100),
            NoteEvent(0, "NOTE_OFF", 64, 0), EndTrackEvent(0)>>
    /\ source.items[1].bytes = <<64, 145, 62, 0>>
    /\ source.items[3].bytes = <<0, 64, 0>>

----------------------------------------------------------------------------
\* The header chunk and the track chunks

\* The division field of the header written has its top bit set.
TopBitSet(division) == division[1] >= 128

\* C21: a header whose 16-bit division field has its top bit set (SMPTE sub-format)
\* is rejected with an error; MIDI::FromFile never returns a Document that takes the
\* field as a number of ticks per quarter note.
C21_SMPTEDivisionIsRejected ==
    (decoded.opened /\ TopBitSet(source.division)) => decoded.is_error

\* Where the first track chunk of a file should begin: after "MThd", the header
\* length and the three 16-bit fields.
FirstChunkPos == Len(MThd) + 4 + 6

\* No track chunk begins at offset p of the file: the stream ends before the eight
\* bytes of "MTrk" and the chunk length, or other bytes are there.
ChunkMissingAt(p) ==
    \/ Len(file) < p + Len(MTrk) + 4
    \/ SubSeq(file, p + 1, p + Len(MTrk)) # MTrk

\* The stream position when the decoder finds no track chunk at offset p: behind the
\* four bytes it read when they are not "MTrk", the end of the stream when the
\* stream ended first.
DetectedAt(p) ==
    IF Len(file) >= p + Len(MTrk) /\ SubSeq(file, p + 1, p + Len(MTrk)) # MTrk
    THEN p + Len(MTrk)
    ELSE Len(file)

MissingTrackAt(at) ==
    /\ decoded.is_error
    /\ decoded.type = "MISSING_TRACK"
    /\ decoded.byte_position = at

\* C22: when the stream ends, or does not carry "MTrk" and a length, where one of
\* the track chunks counted by the header should begin (after the header, after the
\* end-of-track of the track before), MIDI::FromFile returns MISSING_TRACK with the
\* stream position at detection; a file that ends right after its header gives
\* MISSING_TRACK at the offset where the first track chunk should start.
C22_MissingTrackAtStreamPosition ==
    (decoded.opened /\ Len(file) >= FirstChunkPos) =>
        /\ ChunkMissingAt(FirstChunkPos) => MissingTrackAt(DetectedAt(FirstChunkPos))
        /\ Len(file) = FirstChunkPos => MissingTrackAt(FirstChunkPos)
        /\ \A ub \in Uninitialised :
              LET track == TrackFromStream(file, FirstTrackPos, ub) IN
              (/\ source.tracks = 2
               /\ decoded = MIDIFromStream(file, ub)
               /\ ~ChunkMissingAt(FirstChunkPos)
               /\ ~track.is_error
               /\ ChunkMissingAt(track.pos)) => MissingTrackAt(DetectedAt(track.pos))

\* A header counting two tracks, one track chunk with a note-on and its end-of-track,
\* and the end of the file where the second chunk should begin.
C22_Witness ==
    /\ decoded.opened
    /\ source.tracks = 2
    /\ source.chunks = 1
    /\ source.terminated
    /\ Len(source.items) = 1
    /\ source.items[1].bytes = <<0, 144, 60, 100>>
    /\ MissingTrackAt(Len(file))

\* A file that is its header and nothing more, read to MISSING_TRACK at offset 14.
C22_HeaderOnly ==
    /\ decoded.opened
    /\ Len(file) = FirstChunkPos
    /\ MissingTrackAt(FirstChunkPos)

----------------------------------------------------------------------------
\* The tempo

\* A rational [num, den] in lowest terms.
LowestTerms(r) ==
    LET g == GCD(r.num, r.den) IN [num |-> r.num \div g, den |-> r.den \div g]

\* The last event the last Advance applied.
LastEventApplied ==
    LET a == LastApplied[Len(LastApplied)] IN EventAt(Deref(midi_ptr_), a.track, a.index)

\* The last Advance call returned tb::ok and the last event it applied is a tempo
\* event.
AdvanceAppliedTempo ==
    /\ LastApplied # <<>>
    /\ LastEventApplied.type = "META"
    /\ LastEventApplied.meta_type = "TEMPO"

\* C29: after Advance applied a tempo event of U microseconds per quarter note in a
\* Document of D ticks per quarter note (U > 0, D > 0), the ticks per second of the
\* player are 1000000 * D / U.
C29_TempoTicksPerSecond ==
    (/\ AdvanceAppliedTempo
     /\ LastEventApplied.usec_per_quarter_note > 0
     /\ Deref(midi_ptr_).tick_division_ > 0) =>
        LowestTerms(delta_per_second_) =
            LowestTerms([num |-> 1000000 * Deref(midi_ptr_).tick_division_,
                         den |-> LastEventApplied.usec_per_quarter_note])

----------------------------------------------------------------------------
\* Termination of the pull loop

\* One iteration of the while loop of Audio_FileCallback from the state of the file
\* playback unit, with `samples` samples of the buffer filled by the call so far.
PullIteration(samples, ub) ==
    FileCallbackIteration(
        [samples |-> samples,
         player |-> FilePlayer,
         samples_since_last_event |-> samples_since_last_event,
         sample_point |-> file_sample_point_,
         intervals |-> intervals,
         since_advance |-> since_advance,
         exhausted |-> exhausted,
         applied |-> applied,
         consumed |-> consumed], ub)

\* The events of the attached Document not applied yet.
EventsLeft == DocEvents(Deref(midi_ptr_)) - Len(applied)

\* C30: every iteration of the while loop of Audio_FileCallback either ends the loop
\* or applies at least one event of the attached Document, also when the next event
\* is 0 ticks away and when the sample buffer is full; every Advance call that
\* returns tb::ok applies at least one event; and no more events are applied than the
\* Document has. So a call of Audio_FileCallback ends after at most (events left + 1)
\* iterations, and Advance reports the end of the sequence after at most (events of
\* the Document) successful calls.
C30_PullLoopTerminates ==
    /\ Attached => EventsLeft >= 0
    /\ LET r == PlayerAdvance(FilePlayer) IN
       r.ret = "ok" =>
          AppliedBy(tracks_, r.player.tracks, 1, r.player.ticks_elapsed) # <<>>
    /\ \A samples \in {0, SAMPLE_BUFFER_SIZE}, ub \in UndefinedConversions :
          LET it == PullIteration(samples, ub) IN
          it.again =>
             /\ Len(it.state.applied) > Len(applied)
             /\ Len(it.state.applied) <= DocEvents(Deref(midi_ptr_))

\* A pull with the buffer full that goes on: the next event is 0 ticks away, nothing
\* is asked of the generator and Advance applies the event.
C30_Witness ==
    /\ Attached
    /\ samples_since_last_event = 0
    /\ TicksUntilNextEvent(midi_ptr_, tracks_) = 0
    /\ Len(applied) >= 1
    /\ EventsLeft >= 2
    /\ PullIteration(SAMPLE_BUFFER_SIZE, 0).again

----------------------------------------------------------------------------
\* The sample synthesizer

\* A call of GenerateSamples has returned.
Generated == gen.pc = "done"

\* C23: GenerateSamples(dest, count, ...) produces min(count, dest.size()) samples
\* and returns that number: never more than count, and less than count only when
\* count exceeds the capacity of dest.
C23_GenerateSamplesCount ==
    Generated =>
        /\ gen.out.returned = (IF gen.call.count < gen.call.size
                               THEN gen.call.count ELSE gen.call.size)
        /\ Len(gen.out.voices) = gen.out.returned
        /\ gen.out.returned <= gen.call.count
        /\ gen.out.returned < gen.call.count => gen.call.count > gen.call.size

\* Three samples asked for a destination of two: two are produced.
C23_Witness ==
    /\ Generated
    /\ gen.call.count = 3
    /\ gen.call.size = 2
    /\ gen.out.returned = 2

\* C24: a call that produces k samples advances sample_point_ by exactly k modulo
\* 2^UnsignedBits, whether zero, one or many notes are active.
C24_PhaseAdvancesByCount ==
    Generated =>
        gen.sample_point_ = (gen.sample_point + gen.out.returned) % UnsignedMod

\* C25: the samples elapsed since the start point, computed from the wrapping phase
\* counter, are (sample_point - start_point) mod 2^UnsignedBits for all values of
\* both: also when sample_point has wrapped past zero and start_point has not, and
\* when start_point = sample_point - sample_offset itself wraps.
C25_ElapsedSamplesAreModular ==
    (Generated /\ gen.version = "sound.cc") =>
        \A i \in 1..gen.out.returned :
            LET sample_point == (gen.sample_point + i) % UnsignedMod
                start_point == StartPoint(gen.sample_point, gen.call.sample_offset)
            IN  gen.out.diffs[i] = (sample_point - start_point + UnsignedMod) % UnsignedMod

\* The voices of N = 2 * half samples produced by two calls of half samples each, the
\* second with sample_offset = half, from the generator and the status of the call
\* recorded in gen.
InTwoCalls(half) ==
    LET first == Generate(gen.version, gen.sample_point, gen.status,
                          [count |-> half, size |-> gen.call.size, sample_offset |-> 0])
        second == Generate(gen.version, first.sample_point, gen.status,
                           [count |-> half, size |-> gen.call.size, sample_offset |-> half])
    IN  first.voices \o second.voices

C27_ElapsedStrictlyIncreases ==
    Generated =>
        \A i \in 1..(gen.out.returned - 1) :
            \A v \in gen.out.voices[i], w \in gen.out.voices[i + 1] :
                v.note = w.note => w.elapsed.num > v.elapsed.num

\* The transposition the application chose, from the uint8_t it is stored in.
ChosenTransposition(stored) == IF stored > 127 THEN stored - 256 ELSE stored

Clamp(v, lo, hi) == IF v < lo THEN lo ELSE IF v > hi THEN hi ELSE v

\* C28: the note number used for synthesis is clamp(note + transposition, 0, 127)
\* for the signed transposition -6..6 chosen by the application: below 0 it is note
\* 0, above 127 it is note 127.
C28_TransposedNoteIsClamped ==
    (Generated /\ gen.version = "part_004") =>
        \A i \in 1..gen.out.returned :
            {v.note : v \in gen.out.voices[i]} =
                {Clamp(note + ChosenTransposition(gen.status.transposition_offset_), 0, 127)
                 : note \in DOMAIN gen.status.notes}

----------------------------------------------------------------------------
\* The events passed over

\* The data bytes of a channel message the decoder stores nothing for, by the upper
\* four bits of its status byte; -1 for the other status bytes.
IgnoredPayload(status) ==
    LET type_byte == status - (status % 16) IN
    IF type_byte \in {POLYPHONIC_PRESSURE, CONTROLLER, PITCH_BEND} THEN 2
    ELSE IF type_byte \in {PROGRAM_CHANGE, CHANNEL_PRESSURE} THEN 1
    ELSE -1

\* Pass k of `passes` stores nothing and leaves the read position at `next`, where
\* the pass after it reads its delta time.
PassedOverTo(passes, k, next) ==
    /\ ~passes[k].pass.is_error
    /\ passes[k].pass.events = passes[k].events
    /\ passes[k].pass.pos = next
    /\ k < Len(passes)
    /\ passes[k + 1].at = next

\* C31: each ignored event advances the read position by exactly its payload and
\* adds no event to the track: 2 data bytes after a polyphonic pressure, controller
\* or pitch-bend status, 1 data byte after a program change or channel pressure
\* status, the declared length after the type and length of a meta event other than
\* tempo and end-of-track; the next delta time is read from the byte right after.
C31_IgnoredEventsAreSkipped ==
    \A ub \in Uninitialised :
        LET passes == FirstTrackPasses(ub) IN
        \A k \in 1..Len(passes) :
            LET at == TypeByteAt(passes[k]) IN
            at >= 0 =>
                LET status == file[at + 1]
                    length == TypedReadVariableLengthInt(file, at + 2)
                IN
                /\ IgnoredPayload(status) >= 0 =>
                      PassedOverTo(passes, k, at + 1 + IgnoredPayload(status))
                /\ (/\ status = META
                    /\ at + 2 <= Len(file)
                    /\ file[at + 2] \notin {TEMPO, END_TRACK}
                    /\ length.ok) =>
                      PassedOverTo(passes, k, length.pos + length.value)

\* A track of a pitch-bend, a channel pressure and a text event before its
\* end-of-track, decoded to a Document whose track holds the end-of-track only.
C31_Witness ==
    /\ decoded.opened
    /\ ~decoded.is_error
    /\ source.ignored = [two |-> PITCH_BEND, one |-> CHANNEL_PRESSURE]
    /\ Len(source.items) = 3
    /\ source.items[1].kind = "controller"
    /\ source.items[2].kind = "program_change"
    /\ source.items[3].kind = "text"
    /\ Len(decoded.midi.tracks_[1].events) = 1

----------------------------------------------------------------------------
\* The cursors of the tracks

\* C32: in every state of the Player, the playback_ticks of each track not marked
\* done is at most the delta_time of its next unplayed event, so that
\* next_ev.delta_time - info.playback_ticks in TicksUntilNextEvent does not
\* underflow.
C32_PlaybackTicksWithinDelta ==
    \A i \in NotDone : tracks_[i].info.playback_ticks <= NextEvent(i).delta_time

\* A track that has waited for some ticks while another one played an event.
C32_Witness ==
    \E i \in NotDone :
        /\ tracks_[i].info.playback_ticks > 0
        /\ tracks_[i].info.playback_ticks < NextEvent(i).delta_time

----------------------------------------------------------------------------
\* Playback of decoded Documents: the Document MIDI::FromStream returned is the one
\* handed to Player::SetMIDI, as App::BeginExercise does with the Documents it loads.

RECURSIVE TrackTicks(_)
TrackTicks(events) ==
    IF events = <<>> THEN 0 ELSE Head(events).delta_time + TrackTicks(Tail(events))

\* Ticks being TicksBits wide here, the Documents played are those whose tracks
\* last less than TICKS_MAX ticks.
FitsTicks(doc) ==
    \A i \in 1..Len(doc.tracks_) : TrackTicks(doc.tracks_[i].events) < TICKS_MAX

SetMIDI_Decoded ==
    /\ decoded.opened
    /\ ~decoded.is_error
    /\ FitsTicks(decoded.midi)
    /\ ~Attached      \* attaching again is SetMIDI of Spec
    /\ AttachDocument({decoded.midi})
    /\ UNCHANGED <<liveVars, fileThreadVars, decodeVars, generatorVars, gameVars>>

\* file_playback.player.Advance() on the attached Document.
Advance_Decoded ==
    /\ Attached
    /\ decoded.opened
    /\ Advance

PlayDecodedNext == OpenFile \/ FromFile \/ SetMIDI_Decoded \/ Advance_Decoded

PlayDecodedSpec == Init /\ [][PlayDecodedNext]_vars

\* The events of the track tracks_[i] points to.
EventsOf(i) == Deref(midi_ptr_).tracks_[tracks_[i].track].events

\* C33: while a decoded Document is played, the index after current_event_index is
\* an index of the track's events for every track not marked done, and a track is
\* marked done exactly when current_event_index is the index of its last event.
C33_NextIndexIsValid ==
    \A i \in 1..Len(tracks_) :
        LET info == tracks_[i].info IN
        /\ info.current_event_index \in BEFORE_FIRST_EVENT..(Len(EventsOf(i)) - 1)
        /\ ~info.done => info.current_event_index + 1 \in 0..(Len(EventsOf(i)) - 1)
        /\ info.done <=> info.current_event_index = Len(EventsOf(i)) - 1

\* A decoded track of three events is played to its end in more than one call.
C33_Witness ==
    /\ last_op = "Advance"
    /\ decoded.opened
    /\ Len(tracks_) = 1
    /\ tracks_[1].info.done
    /\ Len(EventsOf(1)) = 3
    /\ ~before.tracks[1].info.done
    /\ before.tracks[1].info.current_event_index # BEFORE_FIRST_EVENT

\* C34: in every state of the file playback unit, reached by any interleaving of
\* SetMIDI calls and pulls, the samples already synthesized for the running interval
\* are at most ticks * samples_per_tick for the ticks the next pull reads, so that the
\* pull's requested_samples is not the conversion of a negative number.
C34_RequestNeverNegative ==
    LET ticks == TicksUntilNextEvent(midi_ptr_, tracks_)
        samples_per_tick == SamplesPerTick(SAMPLE_RATE, delta_per_second_)
    IN  ticks # NullOpt =>
            samples_since_last_event * samples_per_tick.den <= ticks * samples_per_tick.num

\* Values of the local `samples` of Audio_FileCallback an iteration can start from.
FilledSoFar == {0, 1, 3000, SAMPLE_BUFFER_SIZE - 1, SAMPLE_BUFFER_SIZE}

\* C35: the count of samples a call of Audio_FileCallback has produced is at most
\* SAMPLE_BUFFER_SIZE after every iteration of its loop and when it returns, for
\* every additional_amount (5000 is more than the buffer holds) and whatever the
\* conversion of a negative request yields: the sub-span handed to the generator
\* starts within the buffer and ends at its end.
C35_SamplesWithinBuffer ==
    /\ last_op = "Audio_FileCallback" => last_ret \in 0..SAMPLE_BUFFER_SIZE
    /\ \A samples \in FilledSoFar, ub \in UndefinedConversions :
          PullIteration(samples, ub).state.samples \in samples..SAMPLE_BUFFER_SIZE

\* A pull of more than the buffer holds filled the buffer in the middle of an interval.
C35_Witness ==
    /\ last_op = "Audio_FileCallback"
    /\ last_ret = SAMPLE_BUFFER_SIZE
    /\ samples_since_last_event > 0
    /\ \E additional_amount \in PullSizes : additional_amount > SAMPLE_BUFFER_SIZE

----------------------------------------------------------------------------
\* The divisions of the tempo case

\* The tempo events of the decoded Document.
DecodedTempos ==
    {e \in UNION {{DecodedTracks[i].events[k] : k \in 1..Len(DecodedTracks[i].events)}
                  : i \in 1..Len(DecodedTracks)} :
        e.type = "META" /\ e.meta_type = "TEMPO"}

\* The divisors of 1.f / (usec_per_quarter_note / tick_division_ / 1000000.f) other
\* than the constant: tick_division_, and the quotient 1.f is divided by, which is 0
\* exactly when the integer quotient usec_per_quarter_note / tick_division_ is.
TempoDivisors(usec_per_quarter_note, tick_division) ==
    IF tick_division = 0 THEN {0}
    ELSE {tick_division, usec_per_quarter_note \div tick_division}

\* C36: for every Document MIDI::FromStream returns and every tempo event in it, no
\* divisor of the expression Player::Advance evaluates for that event is 0.
C36_TempoNeverDividesByZero ==
    \A e \in DecodedTempos :
        0 \notin TempoDivisors(e.usec_per_quarter_note, decoded.midi.tick_division_)

----------------------------------------------------------------------------
\* What SetMIDI leaves alone

\* The step is a call of Player::SetMIDI on the file player.
SetMIDICalled == attaches' = attaches + 1

\* The file player with the transposition the application stored in it.
TransposedPlayer(transposition) ==
    [midi_ptr |-> midi_ptr_, tracks |-> tracks_, notes |-> notes_,
     ticks_elapsed |-> ticks_elapsed_, delta_per_second |-> delta_per_second_,
     transposition_offset_ |-> StoredTransposition(transposition)]

\* C37: a call of SetMIDI leaves the note table, the elapsed ticks, the ticks per
\* second, the transposition offset and the playback unit's samples_since_last_event
\* and phase counter as they were.
C37_SetMIDIKeepsTheRest ==
    [][SetMIDICalled =>
         /\ notes_' = notes_
         /\ ticks_elapsed_' = ticks_elapsed_
         /\ delta_per_second_' = delta_per_second_
         /\ samples_since_last_event' = samples_since_last_event
         /\ file_sample_point_' = file_sample_point_
         /\ \A transposition \in (0 - MAX_TRANSPOSITION)..MAX_TRANSPOSITION :
               LET p == TransposedPlayer(transposition)
                   q == PlayerSetMIDI(p, Deref(midi_ptr_'))
               IN  /\ q.transposition_offset_ = p.transposition_offset_
                   /\ q.tracks = tracks_'
                   /\ q.notes = notes_']_vars

\* SetMIDI in the middle of an interval of a Document that changed the tempo and has
\* a note sounding: all of it is carried over to the new Document.
C37_Witness ==
    /\ last_op = "SetMIDI"
    /\ notes_ # <<>>
    /\ ticks_elapsed_ > 0
    /\ delta_per_second_ # DefaultDeltaPerSecond
    /\ samples_since_last_event > 0
    /\ tracks_ # before.tracks

----------------------------------------------------------------------------
\* The rewind of the live generator

\* C38: when PlayLiveMIDIEvent clears the stream, the samples the stream holds (the
\* ones discarded) are as many as the samples_queued it read before, which is what
\* it rewinds the generator's phase counter by, however the audio thread and the
\* device run in between.
C38_RewindEqualsDiscarded ==
    [][(main.pc = "Clear" /\ main'.pc = "Lock") => live_queued = main.samples_queued]_vars

----------------------------------------------------------------------------
\* The game (src/unnamed/part_008) and the handlers of AppContext that drive it
\* (src/src/app.cc). Indices into Resources count from 1 here, from 0 in the code.

\* exercises the application begins
MaxExercises == 2

\* The note series written into the exercise files.
ExerciseSeries == << <<>>, <<60>>, <<60, 67>>, <<67, 60, 60>> >>

\* The track of an exercise file: every note is held for 40 ticks.
RECURSIVE TranscriptionEvents(_)
TranscriptionEvents(series) ==
    IF series = <<>> THEN <<EndTrackEvent(0)>>
    ELSE <<NoteOnEvent(0, Head(series), 100), NoteOffEvent(40, Head(series))>>
         \o TranscriptionEvents(Tail(series))

CadenceDoc(note) ==
    [tracks_ |-> <<[events |-> <<NoteOnEvent(0, note, 100), NoteOffEvent(40, note),
                                 EndTrackEvent(0)>>]>>,
     tick_division_ |-> 480]

\* Resources as LoadResources fills them, and the cadences given to SetCadences.
Resources ==
    [midis |-> <<CadenceDoc(60), CadenceDoc(57)>>
               \o [i \in 1..Len(ExerciseSeries) |->
                      [tracks_ |-> <<[events |-> TranscriptionEvents(ExerciseSeries[i])]>>,
                       tick_division_ |-> 480]],
     exercises |-> [i \in 1..Len(ExerciseSeries) |->
                      [midi |-> i + 2, type |-> "SINGLE_VOICE_TRANSCRIPTION",
                       tonality |-> IF i % 2 = 0 THEN "MAJOR" ELSE "MINOR"]],
     major_cadence |-> 1,
     minor_cadence |-> 2]

\* Track::ToNoteSeries: the notes of the NOTE_ON events, in order.
RECURSIVE ToNoteSeries(_)
ToNoteSeries(events) ==
    IF events = <<>> THEN <<>>
    ELSE (IF Head(events).type = "NOTE_ON" THEN <<Head(events).note>> ELSE <<>>)
         \o ToNoteSeries(Tail(events))

\* Values of input_key(rand_dev), of player_transposition(rand_dev) and of the notes
\* the controller sends.
InputKeys == {0, 11}
Transpositions == {0 - MAX_TRANSPOSITION, 0, MAX_TRANSPOSITION}
InputNotes == {59, 60, 61, 67, 72, 79}

\* midi::GetPitchClass
GetPitchClass(note) == note % 12

\* A value stored in a uint8_t, and in an int8_t.
UInt8(v) == ((v % 256) + 256) % 256
Int8(v) == IF UInt8(v) > 127 THEN UInt8(v) - 256 ELSE UInt8(v)

\* comparator of Game::InputNote
Comparator(g) ==
    UInt8(g.exercise_notes_[Len(g.note_input_buffer_) + 1] + g.required_input_key_)

\* Whether Game::InputNote calls wrong_note() for this note.
WrongNote(g, note) ==
    IF g.note_input_buffer_ = <<>>
    THEN GetPitchClass(note) # GetPitchClass(Comparator(g))
    ELSE UInt8(note + g.octave_displacement_) # Comparator(g)

\* Mutant of GameMIDIEnded: the end of the cadence starts the reading of the input.
GameMIDIEndedSkippingExercise(g) ==
    CASE g.state_ = "PLAYING_CADENCE" -> [g EXCEPT !.state_ = "READING_INPUT"]
      [] g.state_ = "PLAYING_EXERCISE" -> [g EXCEPT !.state_ = "READING_INPUT"]
      [] OTHER -> g

\* Game::MIDIEnded
GameMIDIEnded(g) ==
    CASE g.state_ = "PLAYING_CADENCE" -> [g EXCEPT !.state_ = "PLAYING_EXERCISE"]
      [] g.state_ = "PLAYING_EXERCISE" -> [g EXCEPT !.state_ = "READING_INPUT"]
      [] g.state_ = "PLAYING_RESULT" -> [g EXCEPT !.state_ = "WAIT_FOR_READY"]
      [] OTHER -> g

\* Game::InputNote
GameInputNote(g, note) ==
    IF g.state_ # "READING_INPUT" THEN g
    ELSE IF Len(g.note_input_buffer_) >= Len(g.exercise_notes_) THEN g
    ELSE IF WrongNote(g, note) THEN [g EXCEPT !.state_ = "WAIT_FOR_READY"]
    ELSE IF g.note_input_buffer_ = <<>>
    THEN LET octave_displacement_ == Int8(Comparator(g) - note) IN
         [g EXCEPT !.octave_displacement_ = octave_displacement_,
                   !.note_input_buffer_ = <<UInt8(note + octave_displacement_)>>]
    ELSE LET pushed == Append(g.note_input_buffer_, UInt8(note + g.octave_displacement_)) IN
         [g EXCEPT !.note_input_buffer_ = pushed,
                   !.state_ = IF Len(pushed) >= Len(g.exercise_notes_)
                              THEN "WAIT_FOR_READY" ELSE @]

\* Game::BeginNewExercise with the exercise and the key it draws (resources_.exercises
\* is not empty).
GameBeginNewExercise(g, index, key) ==
    LET exercise == Resources.exercises[index] IN
    [g EXCEPT !.note_input_buffer_ = <<>>,
              !.exercise_notes_ =
                  IF exercise.type = "SINGLE_VOICE_TRANSCRIPTION"
                  THEN ToNoteSeries(Resources.midis[exercise.midi].tracks_[1].events)
                  ELSE <<>>,
              !.state_ = "PLAYING_CADENCE",
              !.current_exercise_ = index,
              !.required_input_key_ = key]

\* Game::GetCurrentCadenceMIDI
CurrentCadenceMIDI(g) ==
    IF Resources.exercises[g.current_exercise_].tonality = "MINOR"
    THEN Resources.midis[Resources.minor_cadence]
    ELSE Resources.midis[Resources.major_cadence]

\* player.SetMIDI(doc) on the file player, and what it leaves to observe.
GameSetMIDI(doc) ==
    /\ SetFilePlayer(PlayerSetMIDI(FilePlayer, doc))
    /\ last_op' = "SetMIDI"
    /\ last_ret' = "ok"
    /\ before' = FilePlayer
    /\ applied' = <<>>
    /\ consumed' = 0
    /\ attaches' = attaches + 1
    /\ fresh' = (notes_ = <<>>)
    /\ since_advance' = [since_advance EXCEPT !.interrupted = @ \/ since_advance.samples > 0]
    /\ exhausted' = FALSE
    /\ UNCHANGED <<bridgeVars, intervals, loaded>>

\* AppContext::BeginExercise
Game_BeginExercise ==
    /\ game_last.exercises < MaxExercises
    /\ IF game.state_ # "WAIT_FOR_READY"
       THEN /\ game_last' = [game_last EXCEPT !.op = "BeginExercise", !.note = 0]
            /\ UNCHANGED <<game, transposition_offset_, playerVars, historyVars,
                           bridgeVars, bridgeHistoryVars>>
       ELSE \E index \in 1..Len(Resources.exercises), key \in InputKeys,
               transposition \in Transpositions :
               /\ game' = GameBeginNewExercise(game, index, key)
               /\ transposition_offset_' = StoredTransposition(transposition)
               /\ GameSetMIDI(CurrentCadenceMIDI(game'))
               /\ game_last' = [op |-> "BeginExercise", note |-> 0,
                                exercises |-> game_last.exercises + 1]
    /\ UNCHANGED <<liveVars, fileThreadVars, decodeVars, generatorVars>>

\* AppContext::MIDIEnded, the handler of MIDIPlayerEndEvent
Game_MIDIEnded ==
    /\ CASE game.state_ = "PLAYING_CADENCE" ->
                /\ GameSetMIDI(Resources.midis[Resources.exercises[game.current_exercise_].midi])
                /\ game' = GameMIDIEnded(game)
         [] game.state_ = "PLAYING_EXERCISE" ->
                /\ game' = GameMIDIEnded(game)
                /\ UNCHANGED <<playerVars, historyVars, bridgeVars, bridgeHistoryVars>>
         [] OTHER ->
                UNCHANGED <<game, playerVars, historyVars, bridgeVars, bridgeHistoryVars>>
    /\ game_last' = [game_last EXCEPT !.op = "MIDIEnded", !.note = 0]
    /\ UNCHANGED <<transposition_offset_, liveVars, fileThreadVars, decodeVars,
                   generatorVars>>

\* SDL_AppEvent on a MIDIInputEvent of type NOTE_ON: ctx->game.InputNote(ev->note)
Game_InputNote ==
    /\ \E note \in InputNotes :
          /\ game' = GameInputNote(game, note)
          /\ game_last' = [game_last EXCEPT !.op = "InputNote", !.note = note]
    /\ UNCHANGED <<transposition_offset_, playerVars, historyVars, bridgeVars,
                   bridgeHistoryVars, liveVars, fileThreadVars, decodeVars, generatorVars>>

GameNext == Game_BeginExercise \/ Game_MIDIEnded \/ Game_InputNote

GameSpec == Init /\ [][GameNext]_vars

\* The edges of the game state and the handler each is taken by.
GameEdge ==
    \/ /\ game.state_ = "WAIT_FOR_READY" /\ game'.state_ = "PLAYING_CADENCE"
       /\ game_last'.op = "BeginExercise"
    \/ /\ game.state_ = "PLAYING_CADENCE" /\ game'.state_ = "PLAYING_EXERCISE"
       /\ game_last'.op = "MIDIEnded"
    \/ /\ game.state_ = "PLAYING_EXERCISE" /\ game'.state_ = "READING_INPUT"
       /\ game_last'.op = "MIDIEnded"
    \/ /\ game.state_ = "READING_INPUT" /\ game'.state_ = "WAIT_FOR_READY"
       /\ game_last'.op = "InputNote"
       /\ \/ WrongNote(game, game_last'.note)
          \/ Len(game'.note_input_buffer_) = Len(game'.exercise_notes_)

\* C39: every change of the game state is one of the edges WAIT_FOR_READY ->
\* PLAYING_CADENCE (BeginExercise) -> PLAYING_EXERCISE (MIDIEnded) -> READING_INPUT
\* (MIDIEnded) -> WAIT_FOR_READY (InputNote with a wrong note, or with the note that
\* makes the input as long as the exercise's note series); InputNote in any other
\* state than READING_INPUT changes nothing of the game; and the input buffer is
\* never longer than the exercise's note series.
C39_GameStateEdges ==
    /\ [](Len(game.note_input_buffer_) <= Len(game.exercise_notes_))
    /\ [][/\ game'.state_ # game.state_ => GameEdge
          /\ (game_last'.op = "InputNote" /\ game.state_ # "READING_INPUT") => game' = game
         ]_vars

\* The last note of a series of two, played an octave above the required key, ends
\* the reading of the input of the second exercise.
C39_Witness ==
    /\ game.state_ = "WAIT_FOR_READY"
    /\ game_last.op = "InputNote"
    /\ game_last.exercises = 2
    /\ Len(game.exercise_notes_) = 2
    /\ Len(game.note_input_buffer_) = 2
    /\ game.octave_displacement_ # 0

====
